---- MODULE Spec2Model ----
(***************************************************************************)
(* Model of j2gpp, the Jinja2-based general purpose preprocessor.          *)
(*                                                                         *)
(* The repository holds two implementations side by side: the refactored   *)
(* engine (utils.py, core.py, engine.py, cli.py) and the legacy main() of  *)
(* j2gpp/j2gpp.py, which is the function the package exports as its        *)
(* console entry point.  Both are modelled.                                *)
(*                                                                         *)
(* Values of the variable context are tagged records:                      *)
(*   [t |-> "int", i |-> n]    an integer                                  *)
(*   [t |-> "str", s |-> s]    a string                                    *)
(*   [t |-> "nan"]             the float NaN (one object)                  *)
(*   [t |-> "dict", d |-> f]   a nested mapping, f a function on its keys  *)
(* A mapping is a function from a set of keys to values.  Python iterates  *)
(* a dict in insertion order; every assignment of values to the keys is    *)
(* enumerated, so the iteration order of the key names is fixed to         *)
(* KeyOrder without loss of generality.  A dotted key path ("a.b.") is the *)
(* sequence of its keys.                                                   *)
(***************************************************************************)
EXTENDS Integers, Sequences, FiniteSets, TLC

VARIABLES
  arg_base,     \* merge: the base mapping passed to var_dict_update
  arg_incoming, \* merge: the incoming mapping passed to var_dict_update
  merged,       \* merge: outcome of the call, NoCall before it
  entry,        \* context: the entry point running, "cli" (cli.main) or "main" (j2gpp.main)
  args_varfile, \* context: the file each -f/--varfile names, in the order given: its
                \*          format, what is wrong with it and the mapping its loader builds
  args_envvar,  \* context: TRUE when --envvar was given (without a value)
  environ,      \* context: os.environ, name -> raw string
  args_define,  \* context: the -D/--define arguments, each a sequence of tokens
  pc,           \* context: the step of the entry point
  file_i,       \* context: number of variable files loaded
  define_i,     \* context: number of defines handled
  variables,    \* context: J2GPP.variables / global_vars
  errors,       \* context: number of throw_error calls
  caller,       \* render: what runs the batch, "core" (core.process_directory),
                \*         "main" (the render loop of j2gpp.main) or "engine" (J2GPP.render_file)
  sources,      \* render: the files of the batch, in order
  options,      \* render: the options of the run
  src_i,        \* render: number of files the batch is done with
  rpc,          \* render: "between" two files, "rendering" a template, "raised", "done"
  cwd,          \* render: the working directory of the process
  original_wd,  \* render: the directory process_single_file saved at its entry
  dirs,         \* render: the directories that exist
  files,        \* render: the paths of the files that exist
  write_source_toggle, \* render: filters.write_source_toggle[0]
  template_vars,       \* render: the mapping handed to the template being rendered
  exports,      \* render: for each write/append call of the current render, whether
                \*         its target got written
  results,      \* render: the FileRenderResult objects returned so far
  run_args,     \* run: the parsed command line (sources and output options)
  arg_i,        \* run: number of source arguments handled
  found,        \* run: the files discovery kept, each with its output path and
                \*      what is done with it ("render", "copy" or "skip")
  rendered,     \* run: number of found files the render and copy loops are done with
  removed,      \* run: the directories shutil.rmtree deleted
  warnings,     \* run: number of throw_warning calls
  messages,     \* run: the messages recorded as errors, in order
  exit_status,  \* run: the status the process ended with
  ident,        \* identifiers: a call of rec_check_valid_identifier, its mapping,
                \*              its options and what came of it
  engine,       \* engine: the J2GPP object
  call,         \* engine: the last method called on the object
  ext           \* extensions: a call of resolve_dependencies, its locals and its position

merge_vars == <<arg_base, arg_incoming, merged>>
load_vars == <<entry, args_varfile, args_envvar, environ, args_define, pc,
               file_i, define_i>>
context_vars == <<load_vars, variables, errors>>
render_vars == <<caller, sources, options, src_i, rpc, cwd, original_wd, dirs, files,
                 write_source_toggle, template_vars, exports, results>>
run_vars == <<run_args, arg_i, found, rendered, removed, warnings, messages, exit_status>>
unit_vars == <<ident, engine, call, ext>>
vars == <<merge_vars, context_vars, render_vars, run_vars, unit_vars>>

(***************************************************************************)
(* Bounds                                                                  *)
(***************************************************************************)
MaxDepth == 2      \* nesting depth of the enumerated mappings
MaxEntries == 3    \* number of keys, at all depths, of an enumerated mapping

Keys == {"x", "y"}
KeyOrder == <<"x", "y", "__source_path__", "__output_path__">>

(***************************************************************************)
(* Values                                                                  *)
(***************************************************************************)
IntV(n) == [t |-> "int", i |-> n]
StrV(s) == [t |-> "str", s |-> s]
NaN == [t |-> "nan"]
DictV(f) == [t |-> "dict", d |-> f]

IsDict(v) == v.t = "dict"
IsStr(v) == v.t = "str"
IsNaN(v) == v.t = "nan"

EmptyDict == [k \in {} |-> NaN]

\* the string DictLiteral is the Python literal of the mapping {'x': 1}
DictLiteral == "{'x': 1}"
Scalars == {IntV(1), StrV(DictLiteral), NaN}

Put(f, k, v) == [j \in DOMAIN f \cup {k} |-> IF j = k THEN v ELSE f[j]]

RECURSIVE Entries(_)
\* number of keys of a mapping, nested mappings included
Entries(f) ==
  LET RECURSIVE Sum(_)
      Sum(S) == IF S = {} THEN 0
                ELSE LET k == CHOOSE j \in S : TRUE
                     IN  1 + (IF IsDict(f[k]) THEN Entries(f[k].d) ELSE 0)
                           + Sum(S \ {k})
  IN  Sum(DOMAIN f)

RECURSIVE DictsOf(_, _)
\* the mappings of depth <= depth with at most n keys in all
DictsOf(depth, n) ==
  LET Inner == IF depth <= 1 \/ n <= 1 THEN Scalars
               ELSE Scalars \cup {DictV(f) : f \in DictsOf(depth - 1, n - 1)}
      All == UNION {[S -> Inner] : S \in SUBSET Keys}
  IN  {f \in All : Entries(f) <= n}

Dicts == DictsOf(MaxDepth, MaxEntries)

(***************************************************************************)
(* utils.var_dict_update                                                   *)
(***************************************************************************)
NoCall == [called |-> "none"]

\* var_dict1[key] != val : comparison by value; a float NaN differs from
\* everything, itself included, when compared directly, while two mappings
\* are compared item by item with the identity shortcut of containers.
py_ne(val_ori, val) == IsNaN(val_ori) \/ IsNaN(val) \/ val_ori # val

\* mutant: the copy is the mapping itself
dict_copy_shared(d) == [res |-> d, base |-> d, same |-> TRUE]

\* mutant: the result starts empty instead of as a copy of var_dict1
dict_copy_empty(d) == [res |-> EmptyDict, base |-> d, same |-> FALSE]

\* var_dict_res = var_dict1.copy() : a new object with the items of var_dict1
dict_copy(d) == [res |-> d, base |-> d, same |-> FALSE]

\* var_dict_res[key] = val : writes through to var_dict1 only when both names
\* are bound to the same object
set_item(st, key, val) ==
  [st EXCEPT !.res = Put(st.res, key, val),
             !.base = IF st.same THEN Put(st.base, key, val) ELSE st.base]

\* mutant: the second isinstance tests for the wrong type
both_dicts_wrong(val_ori, val) == IsDict(val_ori) /\ IsStr(val)

\* isinstance(val_ori, dict) and isinstance(val, dict)
both_dicts(val_ori, val) == IsDict(val_ori) /\ IsDict(val)

\* val_ori.strip().startswith('{') and val_ori.strip().endswith('}')
looks_like_dict(s) == s = DictLiteral

\* the three parsing attempts (ast.literal_eval, JSON words replaced, unquoted
\* words quoted) on the strings of the model: the literal parses at the first
parse_dict_string(s) ==
  IF s = DictLiteral THEN [ok |-> TRUE, d |-> [k \in {"x"} |-> IntV(1)]]
  ELSE [ok |-> FALSE, d |-> EmptyDict]

\* val_scope = f"{val_scope}{key}."
extend_scope(val_scope, key) == Append(val_scope, key)

\* throw_warning(f"Variable '{val_scope}{key}' got overwritten from
\*                 '{val_ori}' to '{val}'{context}.")
overwrite_warning(val_scope, key, val_ori, val, context) ==
  [path |-> Append(val_scope, key), old |-> val_ori, new |-> val,
   context |-> context]

RECURSIVE var_dict_update(_, _, _, _)
RECURSIVE var_dict_update_items(_, _, _, _, _)

\* the body of "for key, val in var_dict2.items()" from the i-th key on;
\* st holds var_dict_res, the object var_dict1, val_scope and the warnings
var_dict_update_items(var_dict1, var_dict2, context, i, st) ==
  IF i > Len(KeyOrder) THEN st
  ELSE
    LET key == KeyOrder[i]
    IN
    IF key \notin DOMAIN var_dict2
    THEN var_dict_update_items(var_dict1, var_dict2, context, i + 1, st)
    ELSE
      LET val == var_dict2[key]
          overwrite(val_ori) ==
            [set_item(st, key, val) EXCEPT
               !.warns = Append(st.warns, overwrite_warning(st.scope, key, val_ori, val, context))]
          next ==
            IF key \in DOMAIN st.base /\ py_ne(st.base[key], val)
            THEN
              LET val_ori == st.base[key]
              IN
              IF both_dicts(val_ori, val)
              THEN
                LET scope == extend_scope(st.scope, key)
                    rec == var_dict_update(val_ori.d, val.d, scope, context)
                    st1 == [st EXCEPT !.scope = scope,
                                      !.base = Put(st.base, key, DictV(rec.base)),
                                      !.warns = st.warns \o rec.warns]
                IN  set_item(st1, key, DictV(rec.res))
              ELSE IF IsStr(val_ori) /\ IsDict(val) /\ looks_like_dict(val_ori.s)
              THEN
                LET parsed == parse_dict_string(val_ori.s)
                IN
                IF parsed.ok
                THEN
                  LET rec == var_dict_update(parsed.d, val.d, st.scope, context)
                      st1 == [st EXCEPT !.warns = st.warns \o rec.warns]
                  IN  set_item(st1, key, DictV(rec.res))
                ELSE overwrite(val_ori)
              ELSE overwrite(val_ori)
            ELSE set_item(st, key, val)
      IN  var_dict_update_items(var_dict1, var_dict2, context, i + 1, next)

var_dict_update(var_dict1, var_dict2, val_scope, context) ==
  LET copy == dict_copy(var_dict1)
      st0 == [res |-> copy.res, base |-> copy.base, same |-> copy.same,
              scope |-> val_scope, warns |-> <<>>]
      st == var_dict_update_items(var_dict1, var_dict2, context, 1, st0)
  IN  [res |-> st.res, base |-> st.base, same |-> st.same, warns |-> st.warns]

(***************************************************************************)
(* The var_dict_update nested in the legacy main() of j2gpp/j2gpp.py       *)
(***************************************************************************)
\* var_dict_res = var_dict1 : a second name for the object var_dict1
dict_alias(d) == [res |-> d, base |-> d, same |-> TRUE]

RECURSIVE main_var_dict_update(_, _, _, _)
RECURSIVE main_var_dict_update_items(_, _, _, _, _)

main_var_dict_update_items(var_dict1, var_dict2, context, i, st) ==
  IF i > Len(KeyOrder) THEN st
  ELSE
    LET key == KeyOrder[i]
    IN
    IF key \notin DOMAIN var_dict2
    THEN main_var_dict_update_items(var_dict1, var_dict2, context, i + 1, st)
    ELSE
      LET val == var_dict2[key]
          next ==
            IF key \in DOMAIN st.base /\ py_ne(st.base[key], val)
            THEN
              LET val_ori == st.base[key]
              IN
              IF IsDict(val_ori) /\ IsDict(val)
              THEN
                LET scope == Append(st.scope, key)
                    rec == main_var_dict_update(val_ori.d, val.d, scope, context)
                    st1 == [st EXCEPT !.scope = scope,
                                      !.base = Put(st.base, key, DictV(rec.base)),
                                      !.res = Put(st.res, key, DictV(rec.base)),
                                      !.warns = st.warns \o rec.warns]
                IN  set_item(st1, key, DictV(rec.res))
              ELSE
                [set_item(st, key, val) EXCEPT
                   !.warns = Append(st.warns,
                      [path |-> Append(st.scope, key), old |-> val_ori,
                       new |-> val, context |-> context])]
            ELSE set_item(st, key, val)
      IN  main_var_dict_update_items(var_dict1, var_dict2, context, i + 1, next)

main_var_dict_update(var_dict1, var_dict2, val_scope, context) ==
  LET alias == dict_alias(var_dict1)
      st0 == [res |-> alias.res, base |-> alias.base, same |-> alias.same,
              scope |-> val_scope, warns |-> <<>>]
      st == main_var_dict_update_items(var_dict1, var_dict2, context, 1, st0)
  IN  [res |-> st.res, base |-> st.base, same |-> st.same, warns |-> st.warns]

(***************************************************************************)
(* Specification of the merge: the inputs are drawn from Dicts, one action *)
(* per implementation applies it.                                          *)
(***************************************************************************)
\* the state of the parts a specification does not run
IdleMerge ==
  /\ arg_base = EmptyDict
  /\ arg_incoming = EmptyDict
  /\ merged = NoCall

IdleLoad ==
  /\ entry = "none"
  /\ args_varfile = <<>>
  /\ args_envvar = FALSE
  /\ environ = EmptyDict
  /\ args_define = <<>>
  /\ pc = "idle"
  /\ file_i = 0
  /\ define_i = 0

IdleContext ==
  /\ IdleLoad
  /\ variables = EmptyDict
  /\ errors = 0

NoOptions == [chdir |-> "none", warn_overwrite |-> FALSE, no_overwrite |-> FALSE,
              copy_non_template |-> FALSE, no_strict_undefined |-> FALSE]

IdleRender ==
  /\ caller = "none"
  /\ sources = <<>>
  /\ options = NoOptions
  /\ src_i = 0
  /\ rpc = "idle"
  /\ cwd = "start"
  /\ original_wd = "start"
  /\ dirs = {"start"}
  /\ files = {}
  /\ write_source_toggle = TRUE
  /\ template_vars = EmptyDict
  /\ exports = <<>>
  /\ results = <<>>

NoArgs == [source |-> <<>>, outdir |-> FALSE, output |-> FALSE, overwrite_outdir |-> FALSE,
           copy_non_template |-> FALSE, render_non_template |-> ""]

NoIdent == [called |-> "none"]
NoEngine == [made |-> FALSE]
NoExt == [pc |-> "idle"]

IdleUnit ==
  /\ ident = NoIdent
  /\ engine = NoEngine
  /\ call = "none"
  /\ ext = NoExt

IdleRun ==
  /\ run_args = NoArgs
  /\ arg_i = 0
  /\ found = <<>>
  /\ rendered = 0
  /\ removed = {}
  /\ warnings = 0
  /\ messages = <<>>
  /\ exit_status = 0

InitMerge ==
  /\ arg_base \in Dicts
  /\ arg_incoming \in Dicts
  /\ merged = NoCall
  /\ IdleContext
  /\ IdleRender
  /\ IdleRun
  /\ IdleUnit

CallVarDictUpdate ==
  /\ merged = NoCall
  /\ merged' = [called |-> "utils"] @@ var_dict_update(arg_base, arg_incoming, <<>>, "")
  /\ UNCHANGED <<arg_base, arg_incoming, context_vars, render_vars, run_vars, unit_vars>>

CallMainVarDictUpdate ==
  /\ merged = NoCall
  /\ merged' = [called |-> "main"] @@ main_var_dict_update(arg_base, arg_incoming, <<>>, "")
  /\ UNCHANGED <<arg_base, arg_incoming, context_vars, render_vars, run_vars, unit_vars>>

NextMerge == CallVarDictUpdate \/ CallMainVarDictUpdate

SpecMerge == InitMerge /\ [][NextMerge]_vars

(***************************************************************************)
(* Properties of the merge                                                 *)
(***************************************************************************)
UtilsCalled == merged.called = "utils"

SharedKeys == DOMAIN arg_base \cap DOMAIN arg_incoming

RECURSIVE Agree(_, _)
\* the two mappings hold no pair of values that compare unequal at the same
\* key path, other than pairs of mappings that agree in turn
Agree(a, b) ==
  \A k \in DOMAIN a \cap DOMAIN b :
    \/ ~py_ne(a[k], b[k])
    \/ /\ IsDict(a[k]) /\ IsDict(b[k])
       /\ Agree(a[k].d, b[k].d)

\* the warnings of the call that name the path <<k>>
WarningsNaming(k) == {i \in DOMAIN merged.warns : merged.warns[i].path = <<k>>}

\* C1: when a shared key holds a mapping on both sides, var_dict_update
\* merges the two nested mappings: the result at that key is a mapping with
\* every key of both, the keys only the base has keep their value, and no
\* warning is emitted when the two mappings do not disagree on a leaf.
C1_NestedMappingsMerge ==
  UtilsCalled =>
    /\ \A k \in SharedKeys :
         (IsDict(arg_base[k]) /\ IsDict(arg_incoming[k])) =>
           /\ IsDict(merged.res[k])
           /\ DOMAIN merged.res[k].d = DOMAIN arg_base[k].d \cup DOMAIN arg_incoming[k].d
           /\ \A j \in DOMAIN arg_base[k].d \ DOMAIN arg_incoming[k].d :
                merged.res[k].d[j] = arg_base[k].d[j]
    /\ Agree(arg_base, arg_incoming) => merged.warns = <<>>

\* merge({x:{x:1}}, {x:{y:..}}) has been computed: the nested mappings differ,
\* do not disagree, and the result holds both keys
C1_Witness ==
  /\ UtilsCalled
  /\ "x" \in SharedKeys
  /\ IsDict(arg_base["x"]) /\ IsDict(arg_incoming["x"])
  /\ DOMAIN arg_base["x"].d = {"x"} /\ DOMAIN arg_incoming["x"].d = {"y"}
  /\ DOMAIN merged.res["x"].d = {"x", "y"}
  /\ merged.warns = <<>>

\* C2: when a shared key holds a scalar on one side and a mapping on the
\* other, the result holds the incoming value at that key and exactly one
\* warning names that key path.
C2_ScalarAgainstMapping ==
  UtilsCalled =>
    \A k \in SharedKeys :
      (IsDict(arg_base[k]) # IsDict(arg_incoming[k])) =>
        /\ merged.res[k] = arg_incoming[k]
        /\ Cardinality(WarningsNaming(k)) = 1

\* C3: var_dict_update returns a new mapping and leaves base unchanged, in
\* both implementations of the repository.
C3_BaseUnchanged ==
  merged.called # "none" => (merged.base = arg_base /\ ~merged.same)

\* C4: var_dict_update(A, A) returns a mapping equal to A and emits no warning.
C4_Idempotent ==
  (UtilsCalled /\ arg_base = arg_incoming) =>
    (merged.res = arg_base /\ merged.warns = <<>>)

\* C5: for mappings with disjoint key sets var_dict_update returns their
\* union, in either argument order, and emits no warning.
C5_DisjointUnion ==
  (UtilsCalled /\ SharedKeys = {}) =>
    LET union == [k \in DOMAIN arg_base \cup DOMAIN arg_incoming |->
                    IF k \in DOMAIN arg_base THEN arg_base[k] ELSE arg_incoming[k]]
        swapped == var_dict_update(arg_incoming, arg_base, <<>>, "")
    IN  /\ merged.res = union
        /\ merged.warns = <<>>
        /\ swapped.res = union
        /\ swapped.warns = <<>>

\* two non-empty mappings with disjoint keys have been merged
C5_Witness ==
  /\ UtilsCalled
  /\ DOMAIN arg_base = {"x"} /\ DOMAIN arg_incoming = {"y"}
  /\ DOMAIN merged.res = {"x", "y"}

(***************************************************************************)
(* Building the global context: cli.load_variables_from_args with the      *)
(* J2GPP engine, and the "Loading variables" part of the legacy main().    *)
(* A command-line define is a sequence of tokens: key names, ".", "=" and  *)
(* a raw value.  A variables file is the mapping its loader returns, the   *)
(* empty mapping when the load failed.                                     *)
(***************************************************************************)
MaxVarFiles == 2   \* number of -f/--varfile arguments
MaxDefines == 2    \* number of -D/--define arguments

SeqsUpTo(S, n) == UNION {[1..m -> S] : m \in 0..n}

\* a variables file: the extension of its name, its fault ("none", "missing",
\* "permission", "syntax" for content its parser rejects, and for an ENV file
\* "no_equals" or "two_equals" for a line without or with two '=') and the
\* mapping the loader has built when it returns
var_file(format, fault, var_dict) ==
  [format |-> format, fault |-> fault, var_dict |-> var_dict]

\* the files without fault
VarFiles ==
  { var_file("json", "none", var_dict) : var_dict \in
      { EmptyDict,
        [k \in {"x"} |-> IntV(1)],
        [k \in {"x", "y"} |-> IF k = "x" THEN StrV("s") ELSE IntV(1)],
        [k \in {"x"} |-> DictV([j \in {"y"} |-> IntV(1)])] } }

\* the files that give their loader trouble
FaultyVarFiles ==
  { var_file("txt", "none", EmptyDict),
    var_file("json", "missing", EmptyDict),
    var_file("yaml", "permission", EmptyDict),
    var_file("json", "syntax", EmptyDict),
    var_file("env", "no_equals", [k \in {"y"} |-> IntV(1)]),
    var_file("env", "two_equals", EmptyDict),
    var_file("tsv", "none", [k \in {"x"} |-> DictV([j \in {"y"} |-> IntV(1)])]),
    var_file("tsv", "syntax", EmptyDict) }

LOADERS == {"yaml", "yml", "json", "hjson", "xml", "toml", "ini", "cfg", "env", "csv", "tsv"}

Environ == [k \in {"x"} |-> "2"]

Defines ==
  { <<"x", "=", "1">>,
    <<"x", ".", "x", "=", "1">>,
    <<"x", ".", "y", "=", "2">>,
    <<"y", "=", "s">>,
    <<"x">> }

\* mutant: the raw string is kept as it is
auto_cast_str_raw(val) == StrV(val)

\* ast.literal_eval(val), the string itself when it is no Python literal
auto_cast_str(val) ==
  CASE val = "1" -> IntV(1)
    [] val = "2" -> IntV(2)
    [] val = DictLiteral -> DictV([k \in {"x"} |-> IntV(1)])
    [] OTHER -> StrV(val)

RECURSIVE index_of(_, _, _)
\* position of the first sep in tokens at or after i, 0 when there is none
index_of(tokens, sep, i) ==
  IF i > Len(tokens) THEN 0
  ELSE IF tokens[i] = sep THEN i
  ELSE index_of(tokens, sep, i + 1)

\* sep in text
contains(tokens, sep) == index_of(tokens, sep, 1) # 0

\* text.split(sep, 1) of a text that holds sep
split_once(tokens, sep) ==
  LET i == index_of(tokens, sep, 1)
  IN  <<SubSeq(tokens, 1, i - 1), SubSeq(tokens, i + 1, Len(tokens))>>

RECURSIVE split(_, _)
\* text.split(sep)
split(tokens, sep) ==
  LET i == index_of(tokens, sep, 1)
  IN  IF i = 0 THEN <<tokens>>
      ELSE <<SubSeq(tokens, 1, i - 1)>> \o split(SubSeq(tokens, i + 1, Len(tokens)), sep)

\* a key or a raw value made of one token is that token
text_of(tokens) == tokens[1]

\* name.split('.')[::-1]
reversed(seq) == [i \in 1..Len(seq) |-> seq[Len(seq) + 1 - i]]

RECURSIVE nest(_, _, _)
\* for var_key in var_keys[1:]: var_dict = {var_key: var_dict}
nest(var_keys, i, var_dict) ==
  IF i > Len(var_keys) THEN var_dict
  ELSE nest(var_keys, i + 1, [k \in {text_of(var_keys[i])} |-> DictV(var_dict)])

\* the mapping that a define of name=value merges into the context
define_dict(name, value) ==
  LET var_keys == reversed(split(name, "."))
  IN  nest(var_keys, 2, [k \in {text_of(var_keys[1])} |-> value])

\* J2GPP._merge_variables
merge_variables(var_dict1, var_dict2) == var_dict_update(var_dict1, var_dict2, <<>>, "").res

\* J2GPP.define_variable
define_variable(vars_now, name, value) ==
  merge_variables(vars_now, define_dict(name, auto_cast_str(value)))

\* what a loader call comes to: it raises, or it returns var_dict after
\* errors calls of throw_error
loaded(raised, var_dict, thrown) ==
  [raised |-> raised, var_dict |-> var_dict, errors |-> thrown]

\* loaders.load_env_variables: a line without '=' is reported and skipped,
\* var, val = line.split('=') raises ValueError on a line with two
load_env_variables(file) ==
  IF file.fault \in {"missing", "permission"} THEN loaded(TRUE, EmptyDict, 0)
  ELSE IF file.fault = "two_equals" THEN loaded(TRUE, EmptyDict, 0)
  ELSE IF file.fault = "no_equals" THEN loaded(FALSE, file.var_dict, 1)
  ELSE loaded(FALSE, file.var_dict, 0)

\* loaders.load_json_variables and the loaders built like it: the parser runs
\* in a try block that throws an error for any exception
load_parsed_variables(file) ==
  IF file.fault \in {"missing", "permission"} THEN loaded(TRUE, EmptyDict, 0)
  ELSE IF file.fault = "syntax" THEN loaded(FALSE, EmptyDict, 1)
  ELSE loaded(FALSE, file.var_dict, 0)

\* loaders.load_variables_from_file; the loader of a tsv file is called with
\* the keyword delimiter, which load_tsv_variables does not have: TypeError
loaders_load_variables_from_file(file) ==
  IF file.format \notin LOADERS THEN loaded(FALSE, EmptyDict, 1)
  ELSE IF file.format = "tsv" THEN loaded(TRUE, EmptyDict, 0)
  ELSE LET out == IF file.format = "env" THEN load_env_variables(file)
                  ELSE load_parsed_variables(file)
       IN  IF out.raised /\ file.fault \in {"missing", "permission"}
           THEN loaded(FALSE, EmptyDict, 1)
           ELSE out

\* J2GPP.load_variables_from_file, on the mapping the loader returned
load_variables_from_file(vars_now, var_dict) ==
  IF var_dict # EmptyDict THEN merge_variables(vars_now, var_dict) ELSE vars_now

\* loaders.load_variables_from_env_vars without prefix
load_variables_from_env_vars(env_vars) ==
  [var \in DOMAIN env_vars |-> auto_cast_str(env_vars[var])]

\* J2GPP.load_variables_from_env
load_variables_from_env(vars_now, env_vars) ==
  LET env == load_variables_from_env_vars(env_vars)
  IN  IF env # EmptyDict THEN merge_variables(vars_now, env) ELSE vars_now

InitContext ==
  /\ IdleMerge
  /\ IdleRender
  /\ IdleRun
  /\ IdleUnit
  /\ entry \in {"cli", "main"}
  /\ args_varfile \in SeqsUpTo(VarFiles \cup FaultyVarFiles, MaxVarFiles)
  /\ entry = "main" => \A i \in DOMAIN args_varfile : args_varfile[i] \in VarFiles
  /\ args_envvar \in BOOLEAN
  /\ environ = Environ
  /\ args_define \in SeqsUpTo(Defines, MaxDefines)
  /\ pc = IF entry = "cli" THEN "files" ELSE "env"
  /\ file_i = 0
  /\ define_i = 0
  /\ variables = EmptyDict
  /\ errors = 0

FilesLeft == file_i < Len(args_varfile)
DefinesLeft == define_i < Len(args_define)

\* cli.load_variables_from_args: one iteration of "for var_path in args.varfile"
CliLoadVarFile ==
  /\ entry = "cli" /\ pc = "files" /\ FilesLeft
  /\ file_i' = file_i + 1
  /\ LET out == loaders_load_variables_from_file(args_varfile[file_i + 1])
     IN  IF out.raised
         THEN /\ pc' = "crashed"
              /\ UNCHANGED <<variables, errors>>
         ELSE /\ variables' = load_variables_from_file(variables, out.var_dict)
              /\ errors' = errors + out.errors
              /\ UNCHANGED pc
  /\ UNCHANGED <<merge_vars, render_vars, run_vars, unit_vars, entry, args_varfile, args_envvar,
                 environ,
                 args_define, define_i>>

\* cli.load_variables_from_args: "if args.envvar is not None"
CliLoadEnv ==
  /\ entry = "cli" /\ pc = "files" /\ ~FilesLeft
  /\ pc' = "defines"
  /\ variables' = IF args_envvar THEN load_variables_from_env(variables, environ)
                  ELSE variables
  /\ UNCHANGED <<merge_vars, render_vars, run_vars, unit_vars, entry, args_varfile, args_envvar,
                 environ,
                 args_define, file_i, define_i, errors>>

\* cli.load_variables_from_args: one iteration of "for define in args.define"
CliDefine ==
  /\ entry = "cli" /\ pc = "defines" /\ DefinesLeft
  /\ define_i' = define_i + 1
  /\ LET define == args_define[define_i + 1]
     IN  IF ~contains(define, "=")
         THEN /\ errors' = errors + 1
              /\ UNCHANGED variables
         ELSE LET parts == split_once(define, "=")
              IN  /\ variables' = define_variable(variables, parts[1], text_of(parts[2]))
                  /\ UNCHANGED errors
  /\ UNCHANGED <<merge_vars, render_vars, run_vars, unit_vars, entry, args_varfile, args_envvar,
                 environ,
                 args_define, pc, file_i>>

\* legacy main: "if envvar_raw", before the variables files are loaded
MainLoadEnv ==
  /\ entry = "main" /\ pc = "env"
  /\ pc' = "files"
  /\ variables' =
       IF args_envvar /\ environ # EmptyDict
       THEN main_var_dict_update(variables,
              [var \in DOMAIN environ |-> auto_cast_str(environ[var])],
              <<>>, " when loading environment variables").res
       ELSE variables
  /\ UNCHANGED <<merge_vars, render_vars, run_vars, unit_vars, entry, args_varfile, args_envvar,
                 environ,
                 args_define, file_i, define_i, errors>>

\* legacy main: one iteration of "for var_path in global_var_paths"
MainLoadVarFile ==
  /\ entry = "main" /\ pc = "files" /\ FilesLeft
  /\ file_i' = file_i + 1
  /\ variables' = main_var_dict_update(variables, args_varfile[file_i + 1].var_dict, <<>>,
                    " when loading global variables file").res
  /\ UNCHANGED <<merge_vars, render_vars, run_vars, unit_vars, entry, args_varfile, args_envvar,
                 environ,
                 args_define, pc, define_i, errors>>

\* legacy main: one iteration of "for define in defines"
MainDefine ==
  /\ entry = "main" /\ pc = "files" /\ ~FilesLeft /\ DefinesLeft
  /\ define_i' = define_i + 1
  /\ LET define == args_define[define_i + 1]
     IN  IF ~contains(define, "=")
         THEN /\ errors' = errors + 1
              /\ UNCHANGED <<variables, pc>>
         ELSE LET parts == split(define, "=")
              IN  IF Len(parts) # 2
                  THEN \* var, val = define.split('=') raises ValueError
                       /\ pc' = "crashed"
                       /\ UNCHANGED <<variables, errors>>
                  ELSE /\ variables' =
                            main_var_dict_update(variables,
                              define_dict(parts[1], auto_cast_str(text_of(parts[2]))),
                              <<>>, " when loading global command line defines").res
                       /\ UNCHANGED <<errors, pc>>
  /\ UNCHANGED <<merge_vars, render_vars, run_vars, unit_vars, entry, args_varfile, args_envvar,
                 environ,
                 args_define, file_i>>

NextContext ==
  \/ CliLoadVarFile
  \/ CliLoadEnv
  \/ CliDefine
  \/ MainLoadEnv
  \/ MainLoadVarFile
  \/ MainDefine

SpecContext == InitContext /\ [][NextContext]_vars

\* every layer has been merged
ContextBuilt ==
  \/ entry = "cli" /\ pc = "defines" /\ ~DefinesLeft
  \/ entry = "main" /\ pc = "files" /\ ~FilesLeft /\ ~DefinesLeft

(***************************************************************************)
(* Properties of the global context.                                       *)
(***************************************************************************)
WellFormed(define) == contains(define, "=")
DefineName(define) == split_once(define, "=")[1]
DefineValue(define) == text_of(split_once(define, "=")[2])
DefineKeys(define) ==
  LET name == DefineName(define)
  IN  [i \in 1..((Len(name) + 1) \div 2) |-> name[2 * i - 1]]

RECURSIVE HasPath(_, _)
\* the mapping d holds a value at the key path keys
HasPath(d, keys) ==
  /\ keys # <<>>
  /\ keys[1] \in DOMAIN d
  /\ \/ Len(keys) = 1
     \/ IsDict(d[keys[1]]) /\ HasPath(d[keys[1]].d, Tail(keys))

RECURSIVE GetPath(_, _)
GetPath(d, keys) ==
  IF Len(keys) = 1 THEN d[keys[1]] ELSE GetPath(d[keys[1]].d, Tail(keys))

RECURSIVE Within(_, _)
\* every leaf of the mapping part is in the mapping whole with the same value
Within(part, whole) ==
  \A k \in DOMAIN part :
    /\ k \in DOMAIN whole
    /\ IF IsDict(part[k])
       THEN IsDict(whole[k]) /\ Within(part[k].d, whole[k].d)
       ELSE whole[k] = part[k]

\* the layers in the order the documentation gives them, lowest first
ClaimedLayers ==
  [i \in DOMAIN args_varfile |-> args_varfile[i].var_dict]
    \o (IF args_envvar THEN <<[var \in DOMAIN environ |-> auto_cast_str(environ[var])]>>
        ELSE <<>>)
    \o [i \in 1..Len(args_define) |->
          IF WellFormed(args_define[i])
          THEN define_dict(DefineName(args_define[i]),
                           auto_cast_str(DefineValue(args_define[i])))
          ELSE EmptyDict]

HighestLayer(k) ==
  LET setting == {i \in DOMAIN ClaimedLayers : k \in DOMAIN ClaimedLayers[i]}
  IN  CHOOSE i \in setting : \A j \in setting : j <= i

\* C6: once every layer is merged (files in order, then the environment,
\* then the defines in order), each key set by some layer has the value of
\* the highest layer that sets it.
C6_LaterLayerWins ==
  ContextBuilt =>
    \A k \in Keys :
      (\E i \in DOMAIN ClaimedLayers : k \in DOMAIN ClaimedLayers[i]) =>
        Within([j \in {k} |-> ClaimedLayers[HighestLayer(k)][k]], variables)

\* C8: a define a.b=value sets the coerced value (an integer for a numeral)
\* at the nested path a.b of the context and keeps every sibling key that
\* the parent mapping held before the define.
C8_DefineNests ==
  [][ (entry = "cli" /\ define_i' = define_i + 1 /\ WellFormed(args_define[define_i'])) =>
        LET define == args_define[define_i']
            keys == DefineKeys(define)
            raw == DefineValue(define)
            parent == SubSeq(keys, 1, Len(keys) - 1)
        IN  /\ HasPath(variables', keys)
            /\ raw = "1" => GetPath(variables', keys) = IntV(1)
            /\ raw = "2" => GetPath(variables', keys) = IntV(2)
            /\ raw = "s" => GetPath(variables', keys) = StrV("s")
            /\ \A sibling \in Keys \ {keys[Len(keys)]} :
                 HasPath(variables, parent \o <<sibling>>) =>
                   /\ HasPath(variables', parent \o <<sibling>>)
                   /\ GetPath(variables', parent \o <<sibling>>)
                        = GetPath(variables, parent \o <<sibling>>)
    ]_vars

\* x.x=1 then x.y=2 has built {x: {x: 1, y: 2}}
C8_Witness ==
  /\ entry = "cli" /\ pc = "defines" /\ define_i = 2
  /\ args_define = << <<"x", ".", "x", "=", "1">>, <<"x", ".", "y", "=", "2">> >>
  /\ variables = [k \in {"x"} |->
                    DictV([j \in {"x", "y"} |-> IF j = "x" THEN IntV(1) ELSE IntV(2)])]

(***************************************************************************)
(* Rendering a batch of files: core.process_directory calling              *)
(* core.process_single_file, the render loop of the legacy main(), and     *)
(* J2GPP.render_file.  A path is the sequence of its name and extension.   *)
(* A file system is a mapping from the paths that exist to the number of   *)
(* the render that wrote the file last, 0 for a file older than the run.   *)
(* A template is the sequence of the write/append filter calls that its    *)
(* rendering makes.                                                        *)
(***************************************************************************)
MaxSources == 2    \* number of files of a batch

StartDir == "start"   \* the directory the run starts in
SrcDir == "src"       \* the directory of the source files
OutDir == "out"       \* the directory of the output files
NoDir == ""
Target == <<"t">>     \* the path the write/append calls give
NoMessage == "None"

FilterCall(filter, write_source) == [filter |-> filter, write_source |-> write_source]

SourceFiles ==
  { [src_path |-> <<"a", ".j2">>, body |-> <<>>, undefined |-> FALSE],
    [src_path |-> <<"b", ".j2">>,
     body |-> <<FilterCall("write", FALSE), FilterCall("append", TRUE)>>,
     undefined |-> FALSE],
    [src_path |-> <<"d", ".j2">>,
     body |-> <<FilterCall("append", TRUE), FilterCall("write", FALSE)>>,
     undefined |-> FALSE],
    [src_path |-> <<"u", ".j2">>, body |-> <<>>, undefined |-> TRUE],
    [src_path |-> <<"c">>, body |-> <<>>, undefined |-> FALSE] }

OptionSets ==
  { [chdir |-> "out", warn_overwrite |-> FALSE, no_overwrite |-> FALSE,
     copy_non_template |-> FALSE, no_strict_undefined |-> FALSE],
    [chdir |-> "src", warn_overwrite |-> FALSE, no_overwrite |-> TRUE,
     copy_non_template |-> TRUE, no_strict_undefined |-> FALSE],
    [chdir |-> "none", warn_overwrite |-> TRUE, no_overwrite |-> FALSE,
     copy_non_template |-> FALSE, no_strict_undefined |-> TRUE],
    [chdir |-> "out", warn_overwrite |-> TRUE, no_overwrite |-> TRUE,
     copy_non_template |-> FALSE, no_strict_undefined |-> FALSE] }

\* process_single_file: "if warn_overwrite: ... elif no_overwrite: return", for
\* an output file that exists
skips_existing(opts) == ~opts.warn_overwrite /\ opts.no_overwrite

\* legacy main: "Incompatible --warn-overwrite and --no-overwrite options.
\* Option --warn-overwrite is ignored."
resolve_options(opts) ==
  IF opts.warn_overwrite /\ opts.no_overwrite
  THEN [opts EXCEPT !.warn_overwrite = FALSE]
  ELSE opts

FileSystems ==
  { [dirs |-> {StartDir, SrcDir}, files |-> [f \in {} |-> 0]],
    [dirs |-> {StartDir, SrcDir, OutDir}, files |-> [f \in {<<"a">>, <<"b">>, <<"c">>} |-> 0]] }

GlobalContexts == { [k \in {"x"} |-> DictV([j \in {"y"} |-> IntV(1)])] }

\* source_path.endswith('.j2')
is_template(source_path) == source_path[Len(source_path)] = ".j2"

output_rel_path_kept(rel_path) == rel_path

\* process_directory: rel_path[:-3] for a template, rel_path otherwise
output_rel_path(rel_path) ==
  IF is_template(rel_path) THEN SubSeq(rel_path, 1, Len(rel_path) - 1) ELSE rel_path

\* process_directory: the working directory it asks for, NoDir for None
working_dir(opts) ==
  IF opts.chdir = "src" THEN SrcDir
  ELSE IF opts.chdir = "out" THEN OutDir
  ELSE NoDir

\* utils.change_working_directory: os.chdir, a failure goes to throw_error
change_working_directory(dir_path, now, existing) ==
  IF dir_path \in existing
  THEN [cwd |-> dir_path, errors |-> 0]
  ELSE [cwd |-> now, errors |-> 1]

\* mutant: the working directory is left where the render put it
leave_working_directory(original, now, existing) == [cwd |-> now, errors |-> 0]

\* process_single_file: finally: change_working_directory(original_wd)
restore_working_directory(original, now, existing) ==
  change_working_directory(original, now, existing)

FileRenderResult(source_path, output_path, success, error_message, template, was_copied) ==
  [source_path |-> source_path, output_path |-> output_path, success |-> success,
   error_message |-> error_message, is_template |-> template, was_copied |-> was_copied]

\* template_vars.update({'__source_path__': ..., '__output_path__': ...})
template_context(copy, source_path, output_path) ==
  set_item(set_item(copy, "__source_path__", StrV(source_path)),
           "__output_path__", StrV(output_path))

\* the src_context_vars of the legacy render loop
src_context_vars(src_path, out_path) ==
  [k \in {"__source_path__", "__output_path__"} |->
     IF k = "__source_path__" THEN StrV(src_path) ELSE StrV(out_path)]

\* mutant: the toggle follows the last call
toggle_last(toggle, write_source) == write_source

\* mutant: the toggle is left as the last render set it
keep_write_source_toggle(toggle) == toggle

\* write_source_toggle[0] = True, ahead of each render
reset_write_source_toggle(toggle) == TRUE

\* write_source_toggle[0] and write_source
toggle_and(toggle, write_source) == toggle /\ write_source

\* mutant: the environment is strict when the option asks for a relaxed one
setup_undefined_swapped(opts) ==
  IF opts.no_strict_undefined THEN "StrictUndefined" ELSE "Undefined"

\* setup_jinja_environment: env.undefined, jinja2's default Undefined unless
\* "if not options.get('no_strict_undefined', False)"
setup_undefined(opts) ==
  IF ~opts.no_strict_undefined THEN "StrictUndefined" ELSE "Undefined"

\* the template ends with a reference to a variable that is not defined, and
\* the environment raises UndefinedError for it
raises_undefined(source, undefined) == source.undefined /\ undefined = "StrictUndefined"

\* the error message of process_single_file for each exception class
render_error_message(outcome) ==
  CASE outcome = "UndefinedError" -> "Undefined object encountered"
    [] outcome = "TemplateSyntaxError" -> "Syntax error encountered"
    [] outcome = "TemplateNotFound" -> "Included template not found"
    [] outcome = "OSError" -> "Cannot read"
    [] OTHER -> "Exception occurred"

RenderErrors == {"UndefinedError", "TemplateSyntaxError", "TemplateNotFound", "OSError",
                 "Exception"}

InitRender ==
  /\ IdleMerge
  /\ IdleLoad
  /\ IdleRun
  /\ IdleUnit
  /\ variables \in GlobalContexts
  /\ errors = 0
  /\ caller \in {"core", "main", "engine"}
  /\ sources \in SeqsUpTo(SourceFiles, MaxSources)
  /\ caller = "main" => \A i \in DOMAIN sources : is_template(sources[i].src_path)
  /\ options \in OptionSets
  /\ \E fs \in FileSystems : dirs = fs.dirs /\ files = fs.files
  /\ src_i = 0
  /\ rpc = "between"
  /\ cwd = StartDir
  /\ original_wd = StartDir
  /\ write_source_toggle = TRUE
  /\ template_vars = EmptyDict
  /\ exports = <<>>
  /\ results = <<>>

\* core.process_single_file from its entry up to the render of the template,
\* called by process_directory for the next file; an exit before the render
\* runs the finally clause here
ProcessSingleFileEnter ==
  /\ caller = "core" /\ rpc = "between" /\ src_i < Len(sources)
  /\ LET source_path == sources[src_i + 1].src_path
         output_path == output_rel_path(source_path)
         template == is_template(source_path)
         wd == working_dir(options)
         moved == IF wd # NoDir THEN change_working_directory(wd, cwd, dirs)
                  ELSE [cwd |-> cwd, errors |-> 0]
         back == restore_working_directory(cwd, moved.cwd, dirs)
         returns(result, written, made) ==
           /\ results' = Append(results, result)
           /\ files' = written
           /\ dirs' = made
           /\ cwd' = back.cwd
           /\ errors' = errors + moved.errors + back.errors
           /\ src_i' = src_i + 1
           /\ UNCHANGED <<rpc, write_source_toggle, template_vars, variables>>
     IN  /\ original_wd' = cwd
         /\ exports' = <<>>
         /\ \E makedirs_ok \in BOOLEAN :
              /\ OutDir \in dirs => makedirs_ok
              /\ IF ~makedirs_ok
                 THEN returns(FileRenderResult(source_path, output_path, FALSE,
                                "Cannot create directory", template, FALSE), files, dirs)
                 ELSE IF ~template
                 THEN IF options.copy_non_template
                      THEN \E copy_ok \in BOOLEAN :
                             IF copy_ok
                             THEN returns(FileRenderResult(source_path, output_path, TRUE,
                                            NoMessage, FALSE, TRUE),
                                          Put(files, output_path, src_i + 1),
                                          dirs \cup {OutDir})
                             ELSE returns(FileRenderResult(source_path, output_path, FALSE,
                                            "Cannot copy", FALSE, FALSE),
                                          files, dirs \cup {OutDir})
                      ELSE returns(FileRenderResult(source_path, output_path, TRUE,
                                     "Skipped non-template", FALSE, FALSE),
                                   files, dirs \cup {OutDir})
                 ELSE LET st == template_context(dict_copy(variables), source_path, output_path)
                      IN  /\ write_source_toggle' = reset_write_source_toggle(write_source_toggle)
                          /\ template_vars' = st.res
                          /\ variables' = st.base
                          /\ rpc' = "rendering"
                          /\ cwd' = moved.cwd
                          /\ errors' = errors + moved.errors
                          /\ dirs' = dirs \cup {OutDir}
                          /\ UNCHANGED <<files, results, src_i>>
  /\ UNCHANGED <<merge_vars, load_vars, run_vars, unit_vars,
                 caller, sources, options>>

\* the body shared by filters.write and filters.append: the toggle, the
\* directory of the target, the target itself
export_block(write_source) ==
  \E outcome \in {"ok", "makedirs", "open"} :
    /\ write_source_toggle' = toggle_and(write_source_toggle, write_source)
    /\ files' = IF outcome = "ok" THEN Put(files, Target, src_i + 1) ELSE files
    /\ errors' = errors + (CASE outcome = "ok" -> 0
                             [] outcome = "open" -> 1
                             [] outcome = "makedirs" -> 2)
    /\ exports' = Append(exports, outcome = "ok")
    /\ UNCHANGED <<merge_vars, load_vars, run_vars, unit_vars,
                 variables, caller, sources, options, src_i, rpc,
                   cwd, original_wd, dirs, template_vars, results>>

\* the file the render in progress, or the last call, is about
CurrentSource == sources[src_i + 1]
LastSource == sources[src_i]

NextCall == sources[src_i + 1].body[Len(exports) + 1]
CallsLeft == rpc = "rendering" /\ Len(exports) < Len(sources[src_i + 1].body)

\* filters.write, called by the template being rendered
Write ==
  /\ CallsLeft
  /\ NextCall.filter = "write"
  /\ export_block(NextCall.write_source)

\* filters.append, called by the template being rendered
Append_ ==
  /\ CallsLeft
  /\ NextCall.filter = "append"
  /\ export_block(NextCall.write_source)

\* core.process_single_file from the end of the render to its return
ProcessSingleFileReturn ==
  /\ caller = "core" /\ rpc = "rendering"
  /\ LET source_path == sources[src_i + 1].src_path
         output_path == output_rel_path(source_path)
         back == restore_working_directory(original_wd, cwd, dirs)
         returns(success, error_message, written) ==
           /\ results' = Append(results, FileRenderResult(source_path, output_path, success,
                                           error_message, TRUE, FALSE))
           /\ files' = written
           /\ rpc' = "between"
           /\ errors' = errors + back.errors
     IN  /\ cwd' = back.cwd
         /\ src_i' = src_i + 1
         /\ \E outcome \in RenderErrors \cup {"ok", "raised"} :
              /\ outcome = "ok" =>
                   ~CallsLeft /\ ~raises_undefined(CurrentSource, setup_undefined(options))
              /\ outcome = "UndefinedError" =>
                   ~CallsLeft /\ raises_undefined(CurrentSource, setup_undefined(options))
              /\ outcome = "TemplateSyntaxError" => exports = <<>>
              /\ CASE outcome = "raised" ->
                        \* the handler of the exception raises itself
                        /\ rpc' = "raised"
                        /\ \E logged \in 0..1 : errors' = errors + logged + back.errors
                        /\ UNCHANGED <<results, files>>
                   [] outcome \in RenderErrors ->
                        returns(FALSE, render_error_message(outcome), files)
                   [] outcome = "ok" ->
                        IF ~write_source_toggle
                        THEN returns(TRUE, "Skipped by export filter", files)
                        ELSE IF output_path \in DOMAIN files /\ skips_existing(options)
                        THEN returns(TRUE, "Skipped to avoid overwrite", files)
                        ELSE \E write_ok \in BOOLEAN :
                               IF write_ok
                               THEN returns(TRUE, NoMessage, Put(files, output_path, src_i + 1))
                               ELSE returns(FALSE, "Cannot write", files)
  /\ UNCHANGED <<merge_vars, load_vars, run_vars, unit_vars,
                 variables, caller, sources, options, original_wd,
                 dirs, write_source_toggle, template_vars, exports>>

\* legacy main: the render loop from the top of an iteration to the render
MainRenderEnter ==
  /\ caller = "main" /\ rpc = "between" /\ src_i < Len(sources)
  /\ LET src_path == sources[src_i + 1].src_path
         out_path == output_rel_path(src_path)
     IN  \E makedirs_ok \in BOOLEAN :
           /\ OutDir \in dirs => makedirs_ok
           /\ LET made == IF makedirs_ok THEN dirs \cup {OutDir} ELSE dirs
                  moved == IF options.chdir = "none" THEN [cwd |-> cwd, errors |-> 0]
                           ELSE IF options.chdir = "src"
                           THEN change_working_directory(SrcDir, cwd, made)
                           ELSE change_working_directory(OutDir, cwd, made)
                  copy == dict_copy(variables)
                  updated == main_var_dict_update(copy.res, src_context_vars(src_path, out_path),
                               <<>>, " when loading context variables for template")
              IN  /\ write_source_toggle' = reset_write_source_toggle(write_source_toggle)
                  /\ dirs' = made
                  /\ cwd' = moved.cwd
                  /\ errors' = errors + (IF makedirs_ok THEN 0 ELSE 1) + moved.errors
                  /\ template_vars' = updated.res
                  /\ variables' = IF copy.same THEN updated.base ELSE copy.base
  /\ exports' = <<>>
  /\ rpc' = "rendering"
  /\ UNCHANGED <<merge_vars, load_vars, run_vars, unit_vars,
                 caller, sources, options, src_i, original_wd,
                 files, results>>

\* legacy main: the render loop from the end of the render to the end of the
\* iteration
MainRenderReturn ==
  /\ caller = "main" /\ rpc = "rendering"
  /\ LET out_path == output_rel_path(sources[src_i + 1].src_path)
     IN  \E outcome \in {"ok", "OSError", "Exception"} :
           /\ outcome = "ok" => ~CallsLeft
           /\ LET thrown == IF outcome = "ok" THEN 0 ELSE 1
              IN  IF ~write_source_toggle
                  THEN /\ errors' = errors + thrown
                       /\ UNCHANGED files
                  ELSE IF out_path \in DOMAIN files /\ skips_existing(resolve_options(options))
                  THEN /\ errors' = errors + thrown
                       /\ UNCHANGED files
                  ELSE \E write_ok \in BOOLEAN :
                         /\ write_ok => OutDir \in dirs
                         /\ files' = IF write_ok THEN Put(files, out_path, src_i + 1) ELSE files
                         /\ errors' = errors + thrown + (IF write_ok THEN 0 ELSE 1)
  /\ src_i' = src_i + 1
  /\ rpc' = "between"
  /\ UNCHANGED <<merge_vars, load_vars, run_vars, unit_vars,
                 variables, caller, sources, options, cwd,
                 original_wd, dirs, write_source_toggle, template_vars, exports, results>>

\* legacy main: change_working_directory(pwd) after the render loop
MainRestore ==
  /\ caller = "main" /\ rpc = "between" /\ src_i = Len(sources)
  /\ LET back == change_working_directory(StartDir, cwd, dirs)
     IN  /\ cwd' = back.cwd
         /\ errors' = errors + back.errors
  /\ rpc' = "done"
  /\ UNCHANGED <<merge_vars, load_vars, run_vars, unit_vars,
                 variables, caller, sources, options, src_i,
                 original_wd, dirs, files, write_source_toggle, template_vars, exports,
                 results>>

\* J2GPP.render_file: _get_merged_variables copies the context, then
\* _ensure_environment passes setup_jinja_environment the keywords
\* filters= and tests=, which it does not have: TypeError
EngineRenderFile ==
  /\ caller = "engine" /\ rpc = "between" /\ src_i < Len(sources)
  /\ LET merged_vars == dict_copy(variables)
     IN  variables' = merged_vars.base
  /\ src_i' = src_i + 1
  /\ rpc' = "raised"
  /\ UNCHANGED <<merge_vars, load_vars, run_vars, unit_vars,
                 errors, caller, sources, options, cwd, original_wd,
                 dirs, files, write_source_toggle, template_vars, exports, results>>

NextRender ==
  \/ ProcessSingleFileEnter
  \/ Write
  \/ Append_
  \/ ProcessSingleFileReturn
  \/ MainRenderEnter
  \/ MainRenderReturn
  \/ MainRestore
  \/ EngineRenderFile

SpecRender == InitRender /\ [][NextRender]_vars

(***************************************************************************)
(* Properties of the renders.                                              *)
(***************************************************************************)

\* C7: no step of a batch changes the global context, and the mapping a
\* render gets holds the source and the output path of its own file on top
\* of the global context.
C7_PerFileKeysStayLocal ==
  [][ /\ variables' = variables
      /\ rpc' = "rendering" =>
           /\ {"__source_path__", "__output_path__"} \subseteq DOMAIN template_vars'
           /\ template_vars'["__source_path__"] = StrV(sources[src_i' + 1].src_path)
           /\ template_vars'["__output_path__"]
                = StrV(output_rel_path(sources[src_i' + 1].src_path))
           /\ Within(variables', template_vars')
    ]_vars

\* the second template of a batch is being rendered with its own paths
C7_Witness ==
  /\ caller \in {"core", "main"} /\ rpc = "rendering" /\ src_i = 1
  /\ sources[1].src_path = <<"b", ".j2">>
  /\ template_vars["__source_path__"] = StrV(<<"a", ".j2">>)
  /\ "__source_path__" \notin DOMAIN variables
  /\ variables # EmptyDict

\* C9: outside of a call of process_single_file the working directory is
\* the one the run started in, whatever way the calls so far ended.
C9_WorkingDirectoryRestored ==
  (caller = "core" /\ rpc # "rendering") => cwd = StartDir

\* two calls that render in the source directory, the first one failed
C9_Witness ==
  /\ caller = "core" /\ options.chdir = "src" /\ rpc = "between" /\ src_i = 2
  /\ results[1].error_message = "Undefined object encountered"
  /\ results[2].error_message = NoMessage
  /\ cwd = StartDir

\* a write or append call of the last render asked to suppress the output
Suppressed ==
  /\ caller = "core" /\ rpc \in {"between", "raised"} /\ src_i > 0
  /\ \E i \in DOMAIN exports : LastSource.body[i].write_source = FALSE

\* the output file of the last render is not one this render wrote
PrimaryNotWritten ==
  LET output_path == output_rel_path(LastSource.src_path)
  IN  output_path \in DOMAIN files => files[output_path] # src_i

\* C10 as stated: after a render with a suppressing call the output file is
\* not written, the result is 'Skipped by export filter' and the target of
\* every call is written.
C10_SuppressionSticky ==
  Suppressed =>
    /\ PrimaryNotWritten
    /\ rpc = "between"
    /\ results[Len(results)].error_message = "Skipped by export filter"
    /\ \A i \in DOMAIN exports : exports[i]

\* C10 amended: after a render with a suppressing call the output file is
\* not written; the result is 'Skipped by export filter' when the render
\* completed and the error of the render otherwise; the target is written
\* by this render when the write of some call succeeded.
C10_SuppressionStickyCompleted ==
  Suppressed =>
    /\ PrimaryNotWritten
    /\ rpc = "between" =>
         LET result == results[Len(results)]
         IN  \/ result.success /\ result.error_message = "Skipped by export filter"
             \/ /\ ~result.success
                /\ \E outcome \in RenderErrors :
                     result.error_message = render_error_message(outcome)
    /\ (rpc = "between" /\ Len(exports) = Len(LastSource.body)
          /\ results[Len(results)].success) =>
         results[Len(results)].error_message = "Skipped by export filter"
    /\ (\E i \in DOMAIN exports : exports[i]) =>
         (Target \in DOMAIN files /\ files[Target] = src_i)

\* write(write_source=False) then append(write_source=True), both written,
\* the render completed and the output was skipped
C10_Witness ==
  /\ Suppressed
  /\ LastSource.src_path = <<"b", ".j2">>
  /\ exports = <<TRUE, TRUE>>
  /\ results[Len(results)].error_message = "Skipped by export filter"
  /\ Target \in DOMAIN files

\* the call or loop iteration about CurrentSource ends in this step
RenderEnds == rpc = "rendering" /\ rpc' # "rendering"

\* C11: when the no-overwrite policy is active and the output file exists,
\* the end of a render leaves the file as it was, and a render that
\* completed without suppression returns 'Skipped to avoid overwrite'.
C11_NoOverwriteKeepsFile ==
  [][ LET output_path == output_rel_path(CurrentSource.src_path)
      IN  (RenderEnds /\ options.no_overwrite /\ output_path \in DOMAIN files) =>
            /\ output_path \in DOMAIN files'
            /\ files'[output_path] = files[output_path]
            /\ (caller = "core" /\ rpc' = "between" /\ write_source_toggle
                  /\ results'[Len(results')].success) =>
                 results'[Len(results')].error_message = "Skipped to avoid overwrite"
    ]_vars

\* C12: after process_single_file returned for a template that references
\* an undefined variable: under the strict environment the result is a
\* failure, 'Undefined object encountered' unless another error came first,
\* and the output file is not written; under the relaxed environment no
\* undefined error is reported and a successful result without message
\* means the output was written by this render.
C12_UndefinedVariable ==
  (caller = "core" /\ rpc = "between" /\ src_i > 0 /\ LastSource.undefined) =>
    LET result == results[Len(results)]
        output_path == output_rel_path(LastSource.src_path)
    IN  IF ~options.no_strict_undefined
        THEN /\ ~result.success
             /\ result.error_message \in
                  {"Undefined object encountered", "Cannot create directory"}
                    \cup {render_error_message(outcome) : outcome \in RenderErrors}
             /\ PrimaryNotWritten
        ELSE /\ result.error_message # "Undefined object encountered"
             /\ (result.success /\ result.error_message = NoMessage) =>
                  (output_path \in DOMAIN files /\ files[output_path] = src_i)

\* the strict environment failed the template and left the existing output
C12_Witness ==
  /\ caller = "core" /\ rpc = "between" /\ src_i = 1 /\ LastSource.undefined
  /\ ~options.no_strict_undefined
  /\ results[1].error_message = "Undefined object encountered"
  /\ ~results[1].success
  /\ <<"u">> \notin DOMAIN files

\* process_directory: result.add_error(file_result.error_message) for every
\* file result that failed with a message; result.errors as a function of
\* result.files
failed_with_message(file_result) ==
  ~file_result.success /\ file_result.error_message # NoMessage

result_errors(file_results) == SelectSeq(file_results, failed_with_message)

\* RenderResult.success
result_success(error_list) == Len(error_list) = 0

\* process_directory is over: the walk is exhausted or an exception left it
BatchStopped ==
  /\ caller = "core"
  /\ rpc = "raised" \/ (rpc = "between" /\ src_i = Len(sources))

\* C13: when process_directory is over every file of the walk has its
\* result, every failed file has its error, and success is false exactly
\* when an error was recorded.
C13_BatchNeverStops ==
  BatchStopped =>
    /\ Len(results) = Len(sources)
    /\ \A i \in DOMAIN results : results[i].source_path = sources[i].src_path
    /\ Len(result_errors(results))
         = Cardinality({i \in DOMAIN results : ~results[i].success})
    /\ result_success(result_errors(results))
         <=> \A i \in DOMAIN results : results[i].success

\* the files among the first n of the command line that give their loader trouble
faulty_among(n) == {i \in 1..n : args_varfile[i] \in FaultyVarFiles}

\* C20: in cli.main no fault of a variables file ends the loading, and every
\* faulty file handled so far has been recorded as an error.
C20_LoadFailureNeverAborts ==
  entry = "cli" =>
    /\ pc # "crashed"
    /\ errors >= Cardinality(faulty_among(file_i))

(***************************************************************************)
(* The run: the command line, discovery of the sources, the wipe of the    *)
(* output directory and the exit status.  Three entry points are           *)
(* modelled: cli.main ("cli"), the legacy j2gpp.main ("main") and a direct *)
(* call of core.process_directory ("core").  A path is a sequence of       *)
(* tokens: names, the separator "/" and extensions, which begin with the   *)
(* dot (".j2", ".txt", ".d").  Every source argument lies in the directory *)
(* the process starts in, so an absolute path is written from there.       *)
(***************************************************************************)
MaxArgs == 2

OutRoot == <<"out">>
OneOutPath == <<"one">>
NoSuffix == ""
Suffix == "_j2gpp"
DotTokens == {".j2", ".txt", ".d"}

\* what a source argument names: a file, a directory with the files it holds
\* (paths relative to it), a directory without read access, or nothing
SourceArgs ==
  { [kind |-> "file", path |-> <<"a", ".j2">>, holds |-> <<>>],
    [kind |-> "file", path |-> <<"b", ".txt">>, holds |-> <<>>],
    [kind |-> "dir", path |-> <<"src">>,
     holds |-> << <<"a", ".j2">>, <<"b", ".txt">> >>],
    [kind |-> "dir", path |-> <<"p", ".d">>,
     holds |-> << <<"b", ".txt">>, <<"v", ".d", "/", "m">> >>],
    [kind |-> "locked", path |-> <<"lock">>, holds |-> <<>>],
    [kind |-> "missing", path |-> <<"gone">>, holds |-> <<>>] }

ArgSets ==
  [source : SeqsUpTo(SourceArgs, MaxArgs), outdir : BOOLEAN, output : BOOLEAN,
   overwrite_outdir : BOOLEAN, copy_non_template : BOOLEAN,
   render_non_template : {NoSuffix, Suffix}]

RECURSIVE first_dot(_, _)
\* the index of the first token of path, from i on, that begins with a dot, 0 if none
first_dot(path, i) ==
  IF i > Len(path) THEN 0
  ELSE IF path[i] \in DotTokens THEN i
  ELSE first_dot(path, i + 1)

\* path.replace('.', suffix + '.', 1) if '.' in path else path + suffix
add_suffix(path, suffix) ==
  LET i == first_dot(path, 1)
  IN  IF i # 0
      THEN SubSeq(path, 1, i - 1) \o <<suffix>> \o SubSeq(path, i, Len(path))
      ELSE path \o <<suffix>>

\* os.path.join(dir_path, rel_path)
join(dir_path, rel_path) == dir_path \o <<"/">> \o rel_path

\* path begins with the directory dir_path
under(path, dir_path) ==
  /\ Len(path) > Len(dir_path) + 1
  /\ SubSeq(path, 1, Len(dir_path) + 1) = dir_path \o <<"/">>

\* os.path.relpath(path, start) for a path under start or under a sibling of start
relpath(path, start) ==
  IF under(path, start)
  THEN SubSeq(path, Len(start) + 2, Len(path))
  ELSE <<"..", "/">> \o path

RECURSIVE last_sep(_, _)
\* the index of the last "/" of path at or before i, 0 if none
last_sep(path, i) ==
  IF i = 0 THEN 0
  ELSE IF path[i] = "/" THEN i
  ELSE last_sep(path, i - 1)

\* os.path.basename(path)
basename(path) == SubSeq(path, last_sep(path, Len(path)) + 1, Len(path))

\* os.path.dirname(path)
dirname(path) == SubSeq(path, 1, last_sep(path, Len(path)) - 1)

\* validate_arguments and the option checks of j2gpp.main: the number of
\* warnings thrown for the options modelled
option_warnings(args) ==
    (IF args.overwrite_outdir /\ ~args.outdir THEN 1 ELSE 0)
  + (IF args.render_non_template # NoSuffix /\ args.copy_non_template THEN 1 ELSE 0)

\* j2gpp.main: the options after its checks, an ignored option is switched off
check_options(args) ==
  [args EXCEPT !.overwrite_outdir = args.overwrite_outdir /\ args.outdir,
               !.copy_non_template = args.copy_non_template
                                     /\ args.render_non_template = NoSuffix]

wipes_whenever_asked(args) == args.overwrite_outdir

\* process_sources_with_engine: whether the output directory is wiped
wipes_outdir(args) == args.overwrite_outdir /\ args.outdir

\* j2gpp.main: whether the output directory is wiped, on the checked options
main_wipes_outdir(args) == args.overwrite_outdir

\* shutil.rmtree(out_dir) in its try block: the directory goes, or the
\* failure is thrown as an error; out_dir is None or "" without --outdir
rmtree(args, ok) ==
  IF args.outdir /\ ok
  THEN [removed |-> {OutRoot}, messages |-> <<>>]
  ELSE [removed |-> {}, messages |-> <<"Cannot remove output directory">>]

\* the dict main.fetch_source_file builds, with the list it goes to
src_dict(src_path, out_path, how) ==
  [src_path |-> src_path, out_path |-> out_path, how |-> how]

\* main.fetch_source_file
fetch_source_file(src_path, dir_path, warn_non_template, args) ==
  LET template == is_template(src_path)
      named == IF template THEN SubSeq(src_path, 1, Len(src_path) - 1)
               ELSE IF args.copy_non_template THEN src_path
               ELSE add_suffix(src_path, args.render_non_template)
      placed == IF args.outdir
                THEN IF dir_path # <<>>
                     THEN join(OutRoot, relpath(named, dir_path))
                     ELSE join(OutRoot, basename(named))
                ELSE named
      out_path == IF args.output THEN OneOutPath ELSE placed
  IN  IF ~template /\ ~args.copy_non_template /\ args.render_non_template = NoSuffix
      THEN [found |-> <<>>, warnings |-> IF warn_non_template THEN 1 ELSE 0]
      ELSE [found |-> <<src_dict(src_path, out_path,
                                 IF ~template /\ args.copy_non_template
                                 THEN "copy" ELSE "render")>>,
            warnings |-> 0]

RECURSIVE walk_fetch(_, _, _)
\* main.fetch_source_directory: the os.walk loop, from the i-th file on
walk_fetch(dir, i, args) ==
  IF i > Len(dir.holds) THEN <<>>
  ELSE fetch_source_file(join(dir.path, dir.holds[i]), dir.path, FALSE, args).found
       \o walk_fetch(dir, i + 1, args)

\* main.fetch_source
fetch_source(src, args) ==
  IF src.kind = "locked"
  THEN [found |-> <<>>, warnings |-> 0, messages |-> <<"Missing access permissions">>]
  ELSE IF src.kind = "dir"
  THEN [found |-> walk_fetch(src, 1, args), warnings |-> 0, messages |-> <<>>]
  ELSE IF src.kind = "file"
  THEN fetch_source_file(src.path, <<>>, TRUE, args) @@ [messages |-> <<>>]
  ELSE [found |-> <<>>, warnings |-> 0, messages |-> <<"Unresolved source">>]

\* process_directory: the output path of a file of the directory
directory_output_rel_path(rel_path, args) ==
  IF is_template(rel_path) THEN output_rel_path(rel_path)
  ELSE IF args.render_non_template # NoSuffix
  THEN add_suffix(rel_path, args.render_non_template)
  ELSE rel_path

\* process_single_file: what it does with a file that raises nothing
single_file_how(source_path, args) ==
  IF is_template(source_path) THEN "render"
  ELSE IF args.copy_non_template THEN "copy"
  ELSE "skip"

RECURSIVE walk_process(_, _, _)
\* process_directory: the os.walk loop, from the i-th file on
walk_process(dir, i, args) ==
  IF i > Len(dir.holds) THEN <<>>
  ELSE <<src_dict(join(dir.path, dir.holds[i]),
                  join(OutRoot, directory_output_rel_path(dir.holds[i], args)),
                  single_file_how(dir.holds[i], args))>>
       \o walk_process(dir, i + 1, args)

\* the list main renders (sources) followed by the list it copies (to_copy)
work_order(list) ==
  SelectSeq(list, LAMBDA d : d.how = "render") \o SelectSeq(list, LAMBDA d : d.how = "copy")

main_sources(list) == SelectSeq(list, LAMBDA d : d.how = "render")

InitRun ==
  /\ IdleMerge
  /\ IdleRender
  /\ IdleUnit
  /\ entry \in {"cli", "main", "core"}
  /\ args_varfile = <<>>
  /\ args_envvar = FALSE
  /\ environ = EmptyDict
  /\ args_define = <<>>
  /\ pc = "start"
  /\ file_i = 0
  /\ define_i = 0
  /\ variables = EmptyDict
  /\ errors = 0
  /\ run_args \in ArgSets
  /\ entry = "core" => /\ Len(run_args.source) = 1
                       /\ run_args.source[1].kind \in {"dir", "locked"}
                       /\ run_args.outdir /\ ~run_args.output
                       /\ ~run_args.overwrite_outdir
  /\ arg_i = 0
  /\ found = <<>>
  /\ rendered = 0
  /\ removed = {}
  /\ warnings = 0
  /\ messages = <<>>
  /\ exit_status = 0

\* what no action of the run changes
run_fixed == <<merge_vars, render_vars, unit_vars, entry, args_varfile, args_envvar, environ,
               args_define, file_i, define_i, variables>>

\* throw_error for each message of list
throw_errors(list) ==
  /\ messages' = messages \o list
  /\ errors' = errors + Len(list)

\* cli.main from the source check to the configured engine
CliStart ==
  /\ entry = "cli" /\ pc = "start"
  /\ IF run_args.source = <<>>
     THEN /\ throw_errors(<<"Must provide at least one source template.">>)
          /\ exit_status' = 1
          /\ pc' = "exited"
          /\ UNCHANGED warnings
     ELSE /\ throw_errors(IF run_args.output /\ Len(run_args.source) > 1
                          THEN <<"Multiple source templates provided alongside -o/--output argument.">>
                          ELSE <<>>)
          /\ warnings' = warnings + option_warnings(run_args)
          /\ pc' = "wipe"
          /\ UNCHANGED exit_status
  /\ UNCHANGED <<run_fixed, run_args, arg_i, found, rendered, removed>>

\* process_sources_with_engine: the overwrite-outdir block
CliWipe ==
  /\ entry = "cli" /\ pc = "wipe"
  /\ IF wipes_outdir(run_args)
     THEN \E ok \in BOOLEAN :
            LET gone == rmtree(run_args, ok)
            IN  /\ removed' = removed \cup gone.removed
                /\ throw_errors(gone.messages)
     ELSE UNCHANGED <<removed, messages, errors>>
  /\ pc' = "fetch"
  /\ UNCHANGED <<run_fixed, run_args, arg_i, found, rendered, warnings, exit_status>>

\* J2GPP._ensure_environment: setup_jinja_environment has no parameter
\* filters or tests, the call raises TypeError
ensure_environment_raises == TRUE

\* process_sources_with_engine: one turn of its loop over the sources
CliProcessSource ==
  /\ entry = "cli" /\ pc = "fetch" /\ arg_i < Len(run_args.source)
  /\ LET src == run_args.source[arg_i + 1]
         engine_called == \/ src.kind \in {"dir", "locked"} /\ run_args.outdir
                          \/ src.kind = "file"
     IN  IF engine_called /\ ensure_environment_raises
         THEN /\ pc' = "crashed"
              /\ exit_status' = 1
              /\ UNCHANGED <<messages, errors>>
         ELSE /\ throw_errors(IF src.kind \in {"dir", "locked"}
                              THEN <<"Output directory required when processing directories.">>
                              ELSE <<"Unresolved source">>)
              /\ UNCHANGED <<pc, exit_status>>
  /\ arg_i' = arg_i + 1
  /\ UNCHANGED <<run_fixed, run_args, found, rendered, removed, warnings>>

\* handle_results on the results of a loop in which no engine call returned,
\* then the end of cli.main
CliHandleResults ==
  /\ entry = "cli" /\ pc = "fetch" /\ arg_i = Len(run_args.source)
  /\ LET total_files == Len(found)
     IN  throw_errors(IF total_files = 0 THEN <<"No source template found.">> ELSE <<>>)
  /\ exit_status' = IF errors' > 0 THEN 1 ELSE 0
  /\ pc' = "exited"
  /\ UNCHANGED <<run_fixed, run_args, arg_i, found, rendered, removed, warnings>>

\* j2gpp.main from the source check to the checked options
MainStart ==
  /\ entry = "main" /\ pc = "start"
  /\ IF run_args.source = <<>>
     THEN /\ throw_errors(<<"Must provide at least one source template.">>)
          /\ exit_status' = 0
          /\ pc' = "exited"
          /\ UNCHANGED <<warnings, run_args>>
     ELSE /\ warnings' = warnings + option_warnings(run_args)
          /\ run_args' = check_options(run_args)
          /\ pc' = "fetch"
          /\ UNCHANGED <<messages, errors, exit_status>>
  /\ UNCHANGED <<run_fixed, arg_i, found, rendered, removed>>

\* j2gpp.main: one turn of the loop collecting the source paths
MainFetchSource ==
  /\ entry = "main" /\ pc = "fetch" /\ arg_i < Len(run_args.source)
  /\ LET fetched == fetch_source(run_args.source[arg_i + 1], run_args)
     IN  /\ found' = found \o fetched.found
         /\ warnings' = warnings + fetched.warnings
         /\ throw_errors(fetched.messages)
  /\ arg_i' = arg_i + 1
  /\ UNCHANGED <<run_fixed, run_args, pc, rendered, removed, exit_status>>

\* j2gpp.main: the checks that follow the collection
MainCheck ==
  /\ entry = "main" /\ pc = "fetch" /\ arg_i = Len(run_args.source)
  /\ throw_errors(IF found = <<>>
                  THEN <<"No source template found.">>
                  ELSE IF run_args.output /\ Len(main_sources(found)) > 1
                  THEN <<"Multiple source templates provided alongside -o/--output argument.">>
                  ELSE <<>>)
  /\ pc' = "wipe"
  /\ UNCHANGED <<run_fixed, run_args, arg_i, found, rendered, removed, warnings,
                 exit_status>>

\* j2gpp.main: the overwrite-outdir block ahead of the render loop
MainWipe ==
  /\ entry = "main" /\ pc = "wipe"
  /\ IF main_wipes_outdir(run_args)
     THEN \E ok \in BOOLEAN :
            LET gone == rmtree(run_args, ok)
            IN  /\ removed' = removed \cup gone.removed
                /\ throw_errors(gone.messages)
     ELSE UNCHANGED <<removed, messages, errors>>
  /\ pc' = "render"
  /\ UNCHANGED <<run_fixed, run_args, arg_i, found, rendered, warnings, exit_status>>

\* j2gpp.main: one turn of the render loop or of the copy loop; the file is
\* done, or an error is thrown for it
MainWorkItem ==
  /\ entry = "main" /\ pc = "render" /\ rendered < Len(found)
  /\ LET item == work_order(found)[rendered + 1]
     IN  \E failure \in IF item.how = "copy"
                        THEN {<<>>, <<"Cannot write">>}
                        ELSE {<<>>, <<"Exception occurred while rendering">>,
                              <<"Cannot write">>} :
           throw_errors(failure)
  /\ rendered' = rendered + 1
  /\ UNCHANGED <<run_fixed, run_args, arg_i, found, pc, removed, warnings, exit_status>>

\* j2gpp.main: its end, the function returns
MainEnd ==
  /\ entry = "main" /\ pc = "render" /\ rendered = Len(found)
  /\ exit_status' = 0
  /\ pc' = "exited"
  /\ UNCHANGED <<run_fixed, run_args, arg_i, found, rendered, removed, warnings, messages,
                 errors>>

\* core.process_directory(source_dir, output_dir, ...) with files that raise nothing
CoreProcessDirectory ==
  /\ entry = "core" /\ pc = "start"
  /\ LET source_dir == run_args.source[1]
     IN  IF source_dir.kind = "locked"
         THEN /\ messages' = messages \o <<"Missing access permissions">>
              /\ UNCHANGED found
         ELSE /\ found' = walk_process(source_dir, 1, run_args)
              /\ UNCHANGED messages
  /\ arg_i' = 1
  /\ rendered' = Len(found')
  /\ pc' = "returned"
  /\ UNCHANGED <<run_fixed, run_args, removed, warnings, errors, exit_status>>

NextRun ==
  \/ CliStart
  \/ CliWipe
  \/ CliProcessSource
  \/ CliHandleResults
  \/ MainStart
  \/ MainFetchSource
  \/ MainCheck
  \/ MainWipe
  \/ MainWorkItem
  \/ MainEnd
  \/ CoreProcessDirectory

SpecRun == InitRun /\ [][NextRun]_vars

(***************************************************************************)
(* Properties of the run                                                   *)
(***************************************************************************)
RunEnded == entry \in {"cli", "main"} /\ pc \in {"exited", "crashed"}

\* the templates a source argument stands for
templates_of(src) ==
  IF src.kind = "file"
  THEN IF is_template(src.path) THEN {src.path} ELSE {}
  ELSE {join(src.path, src.holds[i]) : i \in {j \in DOMAIN src.holds : is_template(src.holds[j])}}

templates_given(args) == UNION {templates_of(args.source[i]) : i \in DOMAIN args.source}

\* the non-template files a source argument stands for, as <<directory, relative path>>
non_templates_of(src) ==
  IF src.kind = "file"
  THEN IF is_template(src.path) THEN {} ELSE {<<<<>>, src.path>>}
  ELSE {<<src.path, src.holds[i]>> : i \in {j \in DOMAIN src.holds : ~is_template(src.holds[j])}}

\* C14: when the process has ended, its exit status is nonzero exactly when
\* at least one error was recorded during the run.
C14_ExitStatus == RunEnded => (exit_status # 0 <=> errors > 0)

\* C15: a run with sources among which no template is found, under default
\* options, ends with the error 'No source template found.' recorded.
C15_NoTemplateFound ==
  ( /\ RunEnded
    /\ run_args.source # <<>>
    /\ templates_given(run_args) = {}
    /\ ~run_args.copy_non_template /\ run_args.render_non_template = NoSuffix )
  => \E i \in DOMAIN messages : messages[i] = "No source template found."

\* C18: with a single explicit output file and more than one template source
\* the run does not crash, and it ends with the error 'Multiple source
\* templates provided alongside -o/--output argument.' recorded.
C18_MultipleSourcesOneOutput ==
  ( /\ entry \in {"cli", "main"}
    /\ run_args.output
    /\ Cardinality(templates_given(run_args)) > 1 )
  => /\ pc # "crashed"
     /\ pc = "exited" =>
          \E i \in DOMAIN messages :
            messages[i] = "Multiple source templates provided alongside -o/--output argument."

\* C19: a directory is removed only by the wipe step, only the configured
\* output directory, only when overwrite-outdir and an output directory were
\* both given, and before any file is handled; without an output directory
\* the wipe step removes nothing and attempts nothing, and overwrite-outdir
\* given without an output directory draws a warning.
C19_WipeOnlyConfiguredOutdir ==
  [][ /\ removed' # removed =>
           /\ pc = "wipe"
           /\ run_args.overwrite_outdir /\ run_args.outdir
           /\ rendered = 0
           /\ entry = "cli" => arg_i = 0
      /\ removed' \subseteq {OutRoot}
      /\ (pc = "wipe" /\ ~run_args.outdir) => (removed' = removed /\ messages' = messages)
      /\ (pc = "start" /\ pc' # "exited" /\ run_args.overwrite_outdir /\ ~run_args.outdir)
           => warnings' > warnings ]_vars

\* the output directory was wiped and the run went on to its sources
C19_Witness == removed = {OutRoot} /\ pc \in {"fetch", "render"} /\ rendered = 0

\* discovery is over: j2gpp.main has collected its lists, process_directory
\* has walked its directory
DiscoveryDone ==
  \/ entry = "main" /\ pc \in {"wipe", "render", "exited"}
  \/ entry = "core" /\ pc = "returned"

\* the directory the outputs of a source directory go under
output_root(dir_path) == IF run_args.outdir THEN OutRoot ELSE dir_path

\* a path without its last token
without_marker(path) == SubSeq(path, 1, Len(path) - 1)

found_as(src_path, out_path, how) ==
  \E k \in DOMAIN found :
    found[k] = [src_path |-> src_path, out_path |-> out_path, how |-> how]

handled_only_as(src_path, hows) ==
  \A k \in DOMAIN found : found[k].src_path = src_path => found[k].how \in hows

\* C16: after discovery over a readable directory, without a single output
\* file: every template of it is to be rendered to its relative path, marker
\* stripped, under the output root; under default options no non-template
\* of it is to be rendered or copied; in copy mode every non-template of it
\* is to be copied, never rendered, to its relative path under the output root.
C16_Discovery ==
  (DiscoveryDone /\ ~run_args.output) =>
    \A i \in DOMAIN run_args.source :
      LET dir == run_args.source[i]
      IN  dir.kind = "dir" =>
            \A j \in DOMAIN dir.holds :
              LET rel == dir.holds[j]
                  src_path == join(dir.path, rel)
              IN  IF is_template(rel)
                  THEN found_as(src_path, join(output_root(dir.path), without_marker(rel)),
                                "render")
                  ELSE /\ (~run_args.copy_non_template
                           /\ run_args.render_non_template = NoSuffix)
                          => handled_only_as(src_path, {"skip"})
                       /\ (run_args.copy_non_template
                           /\ run_args.render_non_template = NoSuffix)
                          => /\ found_as(src_path, join(output_root(dir.path), rel), "copy")
                             /\ handled_only_as(src_path, {"copy"})

\* a directory with a template and a non-template was discovered in copy mode
C16_Witness ==
  /\ DiscoveryDone /\ ~run_args.output
  /\ run_args.copy_non_template /\ run_args.render_non_template = NoSuffix
  /\ \E k \in DOMAIN found : found[k].how = "copy"
  /\ \E k \in DOMAIN found : found[k].how = "render"

\* the name C17 expects: the suffix just before the extension of the file
\* name, the directory part as it was
suffixed_name(rel_path) ==
  LET k == last_sep(rel_path, Len(rel_path))
  IN  SubSeq(rel_path, 1, k) \o add_suffix(SubSeq(rel_path, k + 1, Len(rel_path)), Suffix)

\* C17: with render-non-template enabled (and no copy mode, no single output
\* file), after discovery every non-template file of the sources is to be
\* rendered, to its mirrored path with the suffix inserted before the
\* extension of the file name.
C17_ForceRenderNonTemplate ==
  ( /\ DiscoveryDone /\ ~run_args.output
    /\ run_args.render_non_template = Suffix /\ ~run_args.copy_non_template ) =>
    \A i \in DOMAIN run_args.source :
      LET src == run_args.source[i]
      IN  src.kind \in {"dir", "file"} =>
            \A nt \in non_templates_of(src) :
              LET dir_path == nt[1]
                  rel == nt[2]
                  src_path == IF dir_path = <<>> THEN rel ELSE join(dir_path, rel)
                  mirrored == IF run_args.outdir THEN join(OutRoot, suffixed_name(rel))
                              ELSE IF dir_path = <<>> THEN suffixed_name(rel)
                              ELSE join(dir_path, suffixed_name(rel))
              IN  found_as(src_path, mirrored, "render")

(***************************************************************************)
(* Identifier check of the keys loaded from a variables file:              *)
(* utils.rec_check_valid_identifier under J2GPP._post_process_variables,   *)
(* and the function of the same name inside j2gpp.main.  A key is a        *)
(* string; what str.isidentifier and re.sub do with it is computed on its  *)
(* characters.                                                             *)
(***************************************************************************)
IdentKeys == {"x", "a-b", "a_b", "1x", "_1x", ""}

\* the characters of a key
spelling(key) ==
  CASE key = "x" -> <<"x">>
    [] key = "a-b" -> <<"a", "-", "b">>
    [] key = "a_b" -> <<"a", "_", "b">>
    [] key = "1x" -> <<"1", "x">>
    [] key = "_1x" -> <<"_", "1", "x">>
    [] OTHER -> <<>>

\* the key of the given characters
spelled(chars) == CHOOSE key \in IdentKeys : spelling(key) = chars

Digits == {"1"}
WordChars == {"a", "b", "x", "_"} \cup Digits

\* key.isidentifier()
isidentifier(key) ==
  LET chars == spelling(key)
  IN  /\ chars # <<>>
      /\ chars[1] \notin Digits
      /\ \A i \in DOMAIN chars : chars[i] \in WordChars

\* re.sub('\W|^(?=\d)', '_', key)
re_sub_invalid(key) ==
  LET chars == spelling(key)
      head == IF chars # <<>> /\ chars[1] \in Digits THEN <<"_">> ELSE <<>>
  IN  spelled(head \o [i \in DOMAIN chars |->
                         IF chars[i] \in WordChars THEN chars[i] ELSE "_"])

Drop(f, k) == [j \in DOMAIN f \ {k} |-> f[j]]

\* the keys of a loaded mapping in some order of insertion
IdentOrders(d) ==
  {order \in [1..Cardinality(DOMAIN d) -> DOMAIN d] :
     \A i, j \in DOMAIN order : i # j => order[i] # order[j]}

\* the order of insertion of a nested mapping of this model (it has one key at most)
nested_order(d) == CHOOSE order \in IdentOrders(d) : TRUE

IdentValues ==
  {IntV(1), DictV([k \in {"a-b"} |-> IntV(1)]), DictV([k \in {"x"} |-> IntV(1)])}

\* the mappings a variables file is loaded as
IdentDicts ==
  UNION {[S -> IdentValues] : S \in {T \in SUBSET {"x", "a-b", "a_b", "1x", ""} :
                                       Cardinality(T) <= 2}}

IdentOptions == [no_check_identifier : BOOLEAN, fix_identifiers : BOOLEAN]

checked(var_dict, thrown, raised) ==
  [var_dict |-> var_dict, warnings |-> thrown, raised |-> raised]

RECURSIVE rec_check_valid_identifier(_, _, _)
\* utils.rec_check_valid_identifier, from the i-th key of the copy on: a
\* warning for a key that is no identifier, the mapping is left as it is
rec_check_valid_identifier(var_dict, order, i) ==
  IF i > Len(order) THEN checked(var_dict, 0, FALSE)
  ELSE LET key == order[i]
           val == var_dict[key]
           warned == IF isidentifier(key) THEN 0 ELSE 1
           inner == IF IsDict(val)
                    THEN rec_check_valid_identifier(val.d, nested_order(val.d), 1)
                    ELSE checked(EmptyDict, 0, FALSE)
           rest == rec_check_valid_identifier(var_dict, order, i + 1)
       IN  checked(var_dict, warned + inner.warnings + rest.warnings, FALSE)

\* J2GPP._post_process_variables
post_process_variables(var_dict, order, opts) ==
  IF ~opts.no_check_identifier
  THEN rec_check_valid_identifier(var_dict, order, 1)
  ELSE checked(var_dict, 0, FALSE)

RECURSIVE main_rec_check_valid_identifier(_, _, _, _, _)
\* main.rec_check_valid_identifier, from the i-th item of the copy on; the
\* mapping is changed in place, var_dict[key] is read again for the recursion
main_rec_check_valid_identifier(var_dict, copy, order, i, fix) ==
  IF i > Len(order) THEN checked(var_dict, 0, FALSE)
  ELSE LET key_ori == order[i]
           val == copy[key_ori]
           invalid == ~isidentifier(key_ori)
           key == IF invalid /\ fix THEN re_sub_invalid(key_ori) ELSE key_ori
           fixed == IF invalid /\ fix THEN Drop(Put(var_dict, key, val), key_ori)
                    ELSE var_dict
           warned == IF invalid /\ ~fix THEN 1 ELSE 0
       IN  IF ~IsDict(val)
           THEN LET rest == main_rec_check_valid_identifier(fixed, copy, order, i + 1, fix)
                IN  checked(rest.var_dict, warned + rest.warnings, rest.raised)
           ELSE IF key \notin DOMAIN fixed \/ ~IsDict(fixed[key])
           THEN \* var_dict[key] raises KeyError, or .copy() of a value that
                \* is no mapping raises AttributeError
                checked(fixed, warned, TRUE)
           ELSE LET inner == main_rec_check_valid_identifier(
                               fixed[key].d, fixed[key].d, nested_order(fixed[key].d), 1, fix)
                    after == Put(fixed, key, DictV(inner.var_dict))
                IN  IF inner.raised
                    THEN checked(after, warned + inner.warnings, TRUE)
                    ELSE LET rest == main_rec_check_valid_identifier(
                                       after, copy, order, i + 1, fix)
                         IN  checked(rest.var_dict,
                                     warned + inner.warnings + rest.warnings, rest.raised)

\* j2gpp.main: an ignored no_check_identifier is switched off
main_check_identifier_options(opts) ==
  IF opts.no_check_identifier /\ opts.fix_identifiers
  THEN [opts EXCEPT !.no_check_identifier = FALSE]
  ELSE opts

\* j2gpp.main, load_var_file: the check of a loaded mapping
main_post_process(var_dict, order, opts) ==
  LET resolved == main_check_identifier_options(opts)
  IN  IF ~resolved.no_check_identifier
      THEN main_rec_check_valid_identifier(var_dict, var_dict, order, 1,
                                           resolved.fix_identifiers)
      ELSE checked(var_dict, 0, FALSE)

InitIdentifier ==
  /\ IdleMerge
  /\ IdleContext
  /\ IdleRender
  /\ IdleRun
  /\ \E var_dict \in IdentDicts, opts \in IdentOptions :
       \E order \in IdentOrders(var_dict) :
         ident = [called |-> "not yet", loaded |-> var_dict, order |-> order,
                  options |-> opts]
  /\ engine = NoEngine
  /\ call = "none"
  /\ ext = NoExt

ident_fixed == <<merge_vars, context_vars, render_vars, run_vars, engine, call, ext>>

\* J2GPP.load_variables_from_file: the post-processing of the loaded mapping
CallPostProcessVariables ==
  /\ ident.called = "not yet"
  /\ ident' = [called |-> "engine", loaded |-> ident.loaded, order |-> ident.order,
               options |-> ident.options]
              @@ post_process_variables(ident.loaded, ident.order, ident.options)
  /\ UNCHANGED ident_fixed

\* j2gpp.main, load_var_file: the check of the loaded mapping
CallMainCheckIdentifier ==
  /\ ident.called = "not yet"
  /\ ident' = [called |-> "main", loaded |-> ident.loaded, order |-> ident.order,
               options |-> ident.options]
              @@ main_post_process(ident.loaded, ident.order, ident.options)
  /\ UNCHANGED ident_fixed

NextIdentifier == CallPostProcessVariables \/ CallMainCheckIdentifier

SpecIdentifier == InitIdentifier /\ [][NextIdentifier]_vars

RECURSIVE AllKeysValid(_)
\* every key of the mapping, at every depth, is an identifier
AllKeysValid(d) ==
  \A k \in DOMAIN d : isidentifier(k) /\ (IsDict(d[k]) => AllKeysValid(d[k].d))

RECURSIVE InvalidKeyCount(_)
\* the number of keys of the mapping, at every depth, that are no identifier
InvalidKeyCount(d) ==
  LET RECURSIVE Sum(_)
      Sum(S) == IF S = {} THEN 0
                ELSE LET k == CHOOSE j \in S : TRUE
                     IN  (IF isidentifier(k) THEN 0 ELSE 1)
                           + (IF IsDict(d[k]) THEN InvalidKeyCount(d[k].d) ELSE 0)
                           + Sum(S \ {k})
  IN  Sum(DOMAIN d)

IdentChecked == ident.called \in {"engine", "main"}

\* C21: after the check of a loaded mapping (no_check_identifier not set):
\* with fix_identifiers the check has not raised and the mapping holds only
\* identifiers as keys, at every depth; without it the mapping is kept and
\* one warning was thrown per key that is no identifier.
C21_IdentifiersHandled ==
  (IdentChecked /\ ~ident.options.no_check_identifier) =>
    IF ident.options.fix_identifiers
    THEN ~ident.raised /\ AllKeysValid(ident.var_dict)
    ELSE /\ ~ident.raised
         /\ ident.var_dict = ident.loaded
         /\ ident.warnings = InvalidKeyCount(ident.loaded)

(***************************************************************************)
(* Properties of the warnings of var_dict_update                           *)
(***************************************************************************)
\* C22: every warning of a var_dict_update call names the key path at which
\* the base mapping held the old value and the incoming mapping holds the
\* new one, and carries the context label of the call.
C22_WarningNamesKeyPath ==
  merged.called = "utils" =>
    \A i \in DOMAIN merged.warns :
      LET w == merged.warns[i]
      IN  /\ HasPath(arg_base, w.path)
          /\ GetPath(arg_base, w.path) = w.old
          /\ HasPath(arg_incoming, w.path)
          /\ GetPath(arg_incoming, w.path) = w.new
          /\ w.context = ""

(***************************************************************************)
(* Further properties of the render                                        *)
(***************************************************************************)
\* the write_source arguments of the write and append calls made so far by
\* the render in progress
calls_so_far == {CurrentSource.body[i].write_source : i \in 1..Len(exports)}

\* C23: while a template is rendered, the toggle is the conjunction of the
\* write_source arguments of the write and append calls of that render alone,
\* 'do write' when it has made none; what earlier files did has no part in it.
C23_ToggleOwnedByRender ==
  rpc = "rendering" => (write_source_toggle <=> FALSE \notin calls_so_far)

\* a template is being rendered after one whose primary output was suppressed
C23_Witness ==
  /\ caller = "core" /\ rpc = "rendering" /\ src_i >= 1
  /\ Len(results) = src_i
  /\ results[src_i].error_message = "Skipped by export filter"
  /\ write_source_toggle

\* the directory the options ask the render to run in
asked_directory ==
  IF options.chdir = "src" THEN SrcDir
  ELSE IF options.chdir = "out" THEN OutDir
  ELSE StartDir

\* C24: while a template is rendered, and the directory the options ask for
\* exists (the output directory may have been created by this very render),
\* the working directory is that directory: the one of the source, the one
\* of the output, or the original one.
C24_WorkingDirectoryWhileRendering ==
  (rpc = "rendering" /\ asked_directory \in dirs) => cwd = asked_directory

\* the destination paths of the batch
destinations == {output_rel_path(sources[i].src_path) : i \in DOMAIN sources}

\* C26: with no_overwrite set (and warn_overwrite not), no step of the run
\* changes a file that was at a destination path of the batch before the
\* run, be the source a template that is rendered or a non-template that is
\* copied.
C26_ExistingDestinationsKept ==
  [][ (options.no_overwrite /\ ~options.warn_overwrite) =>
        \A path \in destinations :
          (path \in DOMAIN files /\ files[path] = 0) =>
            (path \in DOMAIN files' /\ files'[path] = 0) ]_vars

\* the options without the option that the warning declares ignored
without_ignored(opts) == [opts EXCEPT !.no_check_identifier = FALSE]

\* C25: when no_check_identifier and fix_identifiers are both set, the
\* ignored no_check_identifier has no effect: the check ends with the same
\* mapping, the same number of warnings and the same outcome as the check
\* run with fix_identifiers alone, and a check that has not raised leaves
\* only identifiers as keys.
C25_IgnoredOptionHasNoEffect ==
  (IdentChecked /\ ident.options.no_check_identifier /\ ident.options.fix_identifiers) =>
    LET alone == IF ident.called = "engine"
                 THEN post_process_variables(ident.loaded, ident.order,
                                             without_ignored(ident.options))
                 ELSE main_post_process(ident.loaded, ident.order,
                                        without_ignored(ident.options))
    IN  /\ ident.var_dict = alone.var_dict
        /\ ident.warnings = alone.warnings
        /\ ident.raised = alone.raised
        /\ ~ident.raised => AllKeysValid(ident.var_dict)

(***************************************************************************)
(* RenderResult and the handling of the results in the CLI.                *)
(***************************************************************************)

\* RenderResult: the file results and the recorded errors
RenderResult(file_results, error_list) == [files |-> file_results, errors |-> error_list]

\* RenderResult.total_files
total_files(result) == Len(result.files)

\* RenderResult.successful_files
successful_files(result) ==
  Cardinality({i \in DOMAIN result.files : result.files[i].success})

\* RenderResult.failed_files
failed_files(result) ==
  Cardinality({i \in DOMAIN result.files : ~result.files[i].success})

\* process_directory: the RenderResult of a walk that gave these file results
directory_result(file_results) == RenderResult(file_results, result_errors(file_results))

\* process_sources_with_engine: the RenderResult made around the file result
\* of engine.render_file
single_result(file_result) == RenderResult(<<file_result>>, <<>>)

\* handle_results: its return value
handle_results(result_list) ==
  LET has_errors == \E i \in DOMAIN result_list : ~result_success(result_list[i].errors)
      RECURSIVE Sum(_)
      Sum(i) == IF i = 0 THEN 0 ELSE total_files(result_list[i]) + Sum(i - 1)
  IN  IF Sum(Len(result_list)) = 0 THEN FALSE ELSE ~has_errors

\* what the claim asks of a RenderResult and of handle_results on it
SoundResult(result) ==
  /\ failed_files(result) > 0 => ~result_success(result.errors)
  /\ total_files(result) = successful_files(result) + failed_files(result)
  /\ Len(result.errors) >= failed_files(result)
  /\ failed_files(result) > 0 => ~handle_results(<<result>>)

\* process_directory has returned its RenderResult
BatchReturned == caller = "core" /\ rpc = "between" /\ src_i = Len(sources)

MaxCalls == 3      \* number of calls made on the engine

\* the names given to define_variable and remove_variable
EngineNames ==
  { <<"x">>, <<"y">>, <<"x", ".", "y">>, <<"y", ".", "x">>, <<"x", ".", "y", ".", "x">> }

\* the raw values given to define_variable
EngineValues == {"1", "s", DictLiteral}

\* the mappings given to define_variables
EngineDicts ==
  { [k \in {"x"} |-> DictV([j \in {"x", "y"} |-> IntV(1)])],
    [k \in {"y"} |-> DictV(EmptyDict)],
    [k \in {"x"} |-> DictV([j \in {"y"} |-> DictV(EmptyDict)])] }

\* var_keys = name.split('.')
name_keys(name) == [i \in DOMAIN split(name, ".") |-> text_of(split(name, ".")[i])]

\* path[:-1]
but_last(path) == SubSeq(path, 1, Len(path) - 1)

RECURSIVE delete_path(_, _)
\* del current[final_key], current being the mapping at the end of the parent keys
delete_path(d, keys) ==
  IF Len(keys) = 1 THEN Drop(d, keys[1])
  ELSE Put(d, keys[1], DictV(delete_path(d[keys[1]].d, Tail(keys))))

\* mutant: the parents are left as they are
cleanup_no_parents(root, path) == root

RECURSIVE cleanup_empty_parents(_, _)
\* J2GPP._cleanup_empty_parents
cleanup_empty_parents(root, path) ==
  IF path = <<>> THEN root
  ELSE IF ~HasPath(root, path) THEN root
  ELSE LET target == GetPath(root, path)
       IN  IF IsDict(target) /\ DOMAIN target.d = {}
           THEN cleanup_empty_parents(delete_path(root, path), but_last(path))
           ELSE root

\* J2GPP.remove_variable
remove_variable(vars_now, name) ==
  LET var_keys == name_keys(name)
  IN  IF HasPath(vars_now, var_keys)
      THEN cleanup_empty_parents(delete_path(vars_now, var_keys), but_last(var_keys))
      ELSE vars_now

\* J2GPP.has_variable
has_variable(vars_now, name) == HasPath(vars_now, name_keys(name))

\* J2GPP.__init__: the engine after construction
new_engine == [made |-> TRUE, variables |-> EmptyDict, calls |-> 0]

InitEngine ==
  /\ IdleMerge
  /\ IdleContext
  /\ IdleRender
  /\ IdleRun
  /\ ident = NoIdent
  /\ engine = new_engine
  /\ call = [op |-> "none"]
  /\ ext = NoExt

engine_fixed == <<merge_vars, context_vars, render_vars, run_vars, ident, ext>>

\* the call of a method that takes the variables from before to after
called(op, name, after) ==
  /\ engine.calls < MaxCalls
  /\ engine' = [engine EXCEPT !.variables = after, !.calls = @ + 1]
  /\ call' = [op |-> op, name |-> name, before |-> engine.variables]
  /\ UNCHANGED engine_fixed

\* J2GPP.define_variable(name, value)
DefineVariable ==
  \E name \in EngineNames, value \in EngineValues :
    called("define_variable", name, define_variable(engine.variables, name, value))

\* J2GPP.define_variables(variables)
DefineVariables ==
  \E given \in EngineDicts :
    called("define_variables", <<>>, merge_variables(engine.variables, given))

\* J2GPP.remove_variable(name)
RemoveVariable ==
  \E name \in EngineNames :
    called("remove_variable", name, remove_variable(engine.variables, name))

NextEngine == DefineVariable \/ DefineVariables \/ RemoveVariable

SpecEngine == InitEngine /\ [][NextEngine]_vars

\* the key paths of this model
KeyPaths == UNION {[1..n -> Keys] : n \in 1..3}

\* the key paths of the mapping that end at a value that is no mapping
LeafPaths(d) == {path \in KeyPaths : HasPath(d, path) /\ ~IsDict(GetPath(d, path))}

\* the key path starts with the keys
StartsWith(path, keys) == Len(keys) <= Len(path) /\ SubSeq(path, 1, Len(keys)) = keys

\* the last call was remove_variable
Removed == engine.made /\ call.op = "remove_variable"

ExtensionNames == <<"a", "b", "c">>

\* a dependency that no extension provides
MissingName == "m"

Installable == {ExtensionNames[i] : i \in DOMAIN ExtensionNames}

\* the mappings extensions: name -> its "dependencies"
ExtensionSets ==
  UNION {[names -> SUBSET (Installable \cup {MissingName})] : names \in SUBSET Installable}

\* position of the name in the order of sort()
rank(name) == CHOOSE i \in DOMAIN ExtensionNames : ExtensionNames[i] = name

RECURSIVE insert_sorted(_, _)
insert_sorted(sorted, name) ==
  IF sorted = <<>> THEN <<name>>
  ELSE IF rank(name) < rank(sorted[1]) THEN <<name>> \o sorted
  ELSE <<sorted[1]>> \o insert_sorted(Tail(sorted), name)

\* mutant: the queue is taken in the order of its appends
queue_unsorted(queue) == queue

RECURSIVE queue_sort(_)
\* queue.sort()
queue_sort(queue) ==
  IF queue = <<>> THEN <<>>
  ELSE insert_sorted(queue_sort(Tail(queue)), queue[1])

\* the elements of a list
elements(list) == {list[i] : i \in DOMAIN list}

\* the graph after "Check for missing dependencies"
dependency_graph(extensions) ==
  [name \in DOMAIN extensions |-> extensions[name] \cap DOMAIN extensions]

\* the warnings of "Check for missing dependencies"
missing_warnings(extensions) ==
  Cardinality({name \in DOMAIN extensions : extensions[name] \ DOMAIN extensions # {}})

InitExtensions ==
  /\ IdleMerge
  /\ IdleContext
  /\ IdleRender
  /\ IdleRun
  /\ ident = NoIdent
  /\ engine = NoEngine
  /\ call = "none"
  /\ \E extensions \in ExtensionSets :
       \E order \in IdentOrders(extensions) :
         ext = [pc |-> "called", extensions |-> extensions, order |-> order]

ext_fixed == <<merge_vars, context_vars, render_vars, run_vars, ident, engine, call>>

\* resolve_dependencies from its entry to the first test of "while queue"
ResolveBuild ==
  /\ ext.pc = "called"
  /\ LET graph == dependency_graph(ext.extensions)
         in_degree == [name \in DOMAIN graph |-> Cardinality(graph[name])]
     IN  ext' = [pc |-> "loop", extensions |-> ext.extensions, order |-> ext.order,
                 graph |-> graph, in_degree |-> in_degree,
                 queue |-> SelectSeq(ext.order, LAMBDA name : in_degree[name] = 0),
                 result |-> <<>>,
                 warnings |-> missing_warnings(ext.extensions)]
  /\ UNCHANGED ext_fixed

\* one turn of "while queue"
ResolveTurn ==
  /\ ext.pc = "loop" /\ ext.queue # <<>>
  /\ LET sorted == queue_sort(ext.queue)
         node == sorted[1]
         result == Append(ext.result, node)
         in_degree == [name \in DOMAIN ext.graph |->
                         IF node \in ext.graph[name] THEN ext.in_degree[name] - 1
                         ELSE ext.in_degree[name]]
         ready == SelectSeq(ext.order,
                    LAMBDA name : /\ node \in ext.graph[name]
                                  /\ in_degree[name] = 0
                                  /\ name \notin elements(result))
     IN  ext' = [ext EXCEPT !.queue = Tail(sorted) \o ready,
                            !.result = result,
                            !.in_degree = in_degree]
  /\ UNCHANGED ext_fixed

\* resolve_dependencies from the end of the loop to its return
ResolveReturn ==
  /\ ext.pc = "loop" /\ ext.queue = <<>>
  /\ LET remaining == DOMAIN ext.graph \ elements(ext.result)
         circular == Len(ext.result) # Cardinality(DOMAIN ext.graph)
     IN  ext' = [ext EXCEPT !.pc = "returned",
                            !.result = IF circular
                                       THEN ext.result
                                            \o queue_sort(SelectSeq(ext.order,
                                                 LAMBDA name : name \in remaining))
                                       ELSE ext.result,
                            !.warnings = IF circular THEN @ + 1 ELSE @]
  /\ UNCHANGED ext_fixed

NextExtensions == ResolveBuild \/ ResolveTurn \/ ResolveReturn

SpecExtensions == InitExtensions /\ [][NextExtensions]_vars

\* the call runs on as long as it has a step to take
SpecExtensionsFair == SpecExtensions /\ WF_vars(NextExtensions)

\* resolve_dependencies has returned
Resolved == ext.pc = "returned"

\* the names before position i of the list
before(list, i) == {list[j] : j \in 1..(i - 1)}

\* the extensions that can be installed after those of done: not in done,
\* every dependency among the extensions in done
ready_after(done) ==
  {name \in DOMAIN ext.graph : name \notin done /\ ext.graph[name] \subseteq done}

\* no group of extensions depends on itself all around
Acyclic(graph) ==
  \A group \in SUBSET DOMAIN graph :
    group # {} => \E name \in group : graph[name] \cap group = {}

\* the returned order: every name exactly once; without a cycle every
\* extension comes after its installed dependencies and is the smallest of
\* those that were ready at its turn
SoundOrder ==
  LET result == ext.result
  IN  /\ Len(result) = Cardinality(DOMAIN ext.extensions)
      /\ elements(result) = DOMAIN ext.extensions
      /\ Acyclic(ext.graph) =>
           \A i \in DOMAIN result :
             /\ ext.graph[result[i]] \subseteq before(result, i)
             /\ \A name \in ready_after(before(result, i)) : rank(result[i]) <= rank(name)

\* C29: every call of resolve_dependencies returns, and the order it returns
\* holds every extension exactly once, with every extension after its
\* installed dependencies when there is no cycle, and the alphabetically
\* smallest of the ready extensions first.
C29_ResolveDependencies == [](Resolved => SoundOrder) /\ <>Resolved

\* a call has returned the order of three extensions in which c, that
\* depends on nothing, comes before a, that depends on it and on a missing one
C29_Witness ==
  /\ Resolved
  /\ DOMAIN ext.extensions = Installable
  /\ ext.extensions["a"] = {"c", MissingName}
  /\ ext.result = <<"b", "c", "a">>
  /\ ext.order = <<"c", "b", "a">>

(***************************************************************************)
(* The cached Jinja2 environment of a J2GPP engine.                        *)
(***************************************************************************)

\* self._jinja_env = None
NoEnvironment == [built |-> FALSE]

\* the parameters of core.setup_jinja_environment
setup_parameters == {"include_dirs", "filter_paths", "test_paths", "options"}

\* the keywords J2GPP._ensure_environment calls it with
ensure_keywords == {"include_dirs", "filters", "tests", "options"}

\* the configuration an environment is built from
configuration(eng) ==
  [include_dirs |-> eng.include_dirs, filters |-> eng.filters, tests |-> eng.tests,
   options |-> eng.options]

\* setup_jinja_environment called with these keywords: TypeError for a
\* keyword that is no parameter, else the environment of the configuration
setup_jinja_environment(keywords, config) ==
  IF keywords \subseteq setup_parameters
  THEN [raised |-> FALSE, env |-> [built |-> TRUE, from |-> config]]
  ELSE [raised |-> TRUE]

\* J2GPP._ensure_environment
ensure_environment(eng) ==
  IF eng.jinja_env = NoEnvironment \/ eng.env_dirty
  THEN LET made == setup_jinja_environment(ensure_keywords, configuration(eng))
       IN  IF made.raised THEN [raised |-> TRUE, engine |-> eng]
           ELSE [raised |-> FALSE,
                 engine |-> [eng EXCEPT !.jinja_env = made.env, !.env_dirty = FALSE]]
  ELSE [raised |-> FALSE, engine |-> eng]

\* the options of this model that J2GPP.__init__ sets, and one it does not
KnownOptions == {"no_chdir"}
OptionNames == KnownOptions \cup {"unknown"}

\* the include directories of this model
IncludeDirs == {"inc", "lib"}

\* the names of the filters and tests of this model
FunctionNames == {"f"}

\* J2GPP.__init__: the configuration and the cache after construction
configured_engine ==
  [made |-> TRUE, include_dirs |-> <<>>, filters |-> {}, tests |-> {},
   options |-> [o \in KnownOptions |-> FALSE],
   jinja_env |-> NoEnvironment, env_dirty |-> TRUE, calls |-> 0]

InitEnvironment ==
  /\ IdleMerge
  /\ IdleContext
  /\ IdleRender
  /\ IdleRun
  /\ ident = NoIdent
  /\ engine = configured_engine
  /\ call = [op |-> "none", raised |-> FALSE]
  /\ ext = NoExt

\* a call of a method of the engine that leaves it as after
configured(op, after, raised) ==
  /\ engine.calls < MaxCalls
  /\ engine' = [after EXCEPT !.calls = engine.calls + 1]
  /\ call' = [op |-> op, raised |-> raised]
  /\ UNCHANGED engine_fixed

\* J2GPP.set_include_directories(dirs)
SetIncludeDirectories ==
  \E dirs_given \in SeqsUpTo(IncludeDirs, 1) :
    configured("set_include_directories",
               [engine EXCEPT !.include_dirs = dirs_given, !.env_dirty = TRUE], FALSE)

\* J2GPP.add_include_directory(dir_path)
AddIncludeDirectory ==
  \E dir_path \in IncludeDirs :
    configured("add_include_directory",
               [engine EXCEPT !.include_dirs = Append(@, dir_path), !.env_dirty = TRUE], FALSE)

\* J2GPP.set_option(option_name, value)
SetOption ==
  \E option_name \in OptionNames, value \in BOOLEAN :
    configured("set_option",
               IF option_name \in DOMAIN engine.options
               THEN [engine EXCEPT !.options[option_name] = value, !.env_dirty = TRUE]
               ELSE engine, FALSE)

\* J2GPP.add_filter(name, function_callable)
AddFilter ==
  \E name \in FunctionNames, is_callable \in BOOLEAN :
    configured("add_filter",
               IF is_callable
               THEN [engine EXCEPT !.filters = @ \cup {name}, !.env_dirty = TRUE]
               ELSE engine, FALSE)

\* J2GPP.add_test(name, function_callable)
AddTest ==
  \E name \in FunctionNames, is_callable \in BOOLEAN :
    configured("add_test",
               IF is_callable
               THEN [engine EXCEPT !.tests = @ \cup {name}, !.env_dirty = TRUE]
               ELSE engine, FALSE)

\* J2GPP.render_file, render_string: the call up to _ensure_environment
Render ==
  LET ensured == ensure_environment(engine)
  IN  configured("render", ensured.engine, ensured.raised)

NextEnvironment ==
  \/ SetIncludeDirectories
  \/ AddIncludeDirectory
  \/ SetOption
  \/ AddFilter
  \/ AddTest
  \/ Render

SpecEnvironment == InitEnvironment /\ [][NextEnvironment]_vars

\* C30: a cached environment that is not marked dirty was built from the
\* configuration the engine holds, and after a render call the engine holds
\* such an environment: the render has used an environment built from every
\* configuration call made before it.
C30_EnvironmentNeverStale ==
  /\ (engine.jinja_env # NoEnvironment /\ ~engine.env_dirty) =>
       engine.jinja_env.from = configuration(engine)
  /\ call.op = "render" =>
       /\ ~call.raised
       /\ engine.jinja_env # NoEnvironment /\ ~engine.env_dirty
       /\ engine.jinja_env.from = configuration(engine)

====
